---- MODULE Spec2Model ----
(***************************************************************************)
(* PSP fee reconciliation engine of pretix-payment-fees.                   *)
(*                                                                         *)
(* The model follows services/psp_sync.py (PSPSyncService, PSPSyncResult)  *)
(* and the two gateway clients psp/mollie_client.py, psp/sumup_client.py.  *)
(* Money is counted in cents, and in the Mollie fee calculation, whose     *)
(* results are not rounded, in 1/10000 cent.  Time is counted in hours,    *)
(* and for the OAuth token in minutes.                                     *)
(***************************************************************************)
EXTENDS Integers, Sequences, FiniteSets, TLC

\* ------------------------------------------------------------------ bounds
MaxTime == 1          \* the clock runs 0..MaxTime
MaxRuns == 2          \* sync_payments calls per behaviour
MaxChanges == 1       \* upstream changes per behaviour
MaxAge == 3           \* the clock of the gateway client specification runs 0..MaxAge
MaxHours == 26        \* the hour clock of the periodic task runs 0..MaxHours

MaxClock == 2         \* the minute clock of the OAuth specification runs 0..MaxClock

\* ------------------------------------------------------- program constants
MAX_RETRIES == 3      \* MollieClient.MAX_RETRIES, SumUpClient.MAX_RETRIES
CACHE_HOURS == 1      \* timedelta(hours=1) in _get_from_cache
BACKOFF_FACTOR == 2   \* MollieClient.BACKOFF_FACTOR, SumUpClient.BACKOFF_FACTOR
BUFFER_MINUTES == 5   \* timedelta(minutes=5) in is_token_valid

\* --------------------------------------------------------------- universes
Payments == {"p1", "p2"}
Orders == {"o1", "o2"}
MollieProviders == {"mollie"}
Providers == MollieProviders \cup {"sumup", "banktransfer"}
PaymentStates == {"confirmed", "pending"}
PAYMENT_STATE_CONFIRMED == "confirmed"
Fees == {0, 29, 49}
UpstreamStatuses == {"ok", "404", "429"}
CreatedAtFormats == {"naive", "aware"}
Faults == {"none", "fetch", "fee_write", "info_write"}
Volatile == {"p1"}    \* payments whose processor data changes over time

VARIABLES
  order,        \* payment -> order it belongs to                (OrderPayment.order)
  provider,     \* payment -> provider tag                       (OrderPayment.provider)
  pstate,       \* payment -> confirmation state                 (OrderPayment.state)
  hasTxId,      \* payment -> info_data carries a transaction id
  config,       \* which gateway clients the service constructs  (PSPConfig)
  upstream,     \* payment -> what the processor answers for its transaction
  now,          \* the clock
  fees,         \* the OrderFee rows
  nextFeeId,    \* primary key of the next OrderFee row
  info,         \* payment -> info_data["psp_fees"]
  cache,        \* payment -> PSPTransactionCache row of its transaction
  pc,           \* "idle" or "running": position of sync_payments
  opts,         \* arguments of the running sync_payments call
  batch,        \* the payments argument of the running call
  queue,        \* payments the for loop has not reached yet
  result,       \* the PSPSyncResult of the running call
  outcome,      \* payment -> what the running call did with it
  step,         \* what the last executed loop iteration did
  known,        \* batch payments that had a fee row or annotation at the call
  prev,         \* summary of the last returned plain call, while nothing changed
  runs,         \* number of calls started
  changes,      \* number of upstream changes
  calm,         \* nothing changed and nothing raised since the running call began
  gw,           \* one gateway client, its processor and its cache row, seen alone
  calc,         \* one Mollie fee calculation, seen alone
  psp_config,   \* the OAuth fields of the organizer's PSPConfig
  clock,        \* the clock in minutes
  service,      \* the PSPSyncService last constructed
  mollie,       \* what Mollie holds for the transaction of p1, and the rates
  auto,         \* one organizer's auto-sync settings and its periodic ticks
  txcache,      \* the PSPTransactionCache table shared by all organizers
  tenants,      \* the OAuth fields of every organizer and one browser session
  sumup,        \* the transaction SumUp holds for p1
  workers,      \* two overlapping sync runs of one tenant: their locals
  web,          \* the browser session of the OAuth views and their last callback
  rate_cache    \* the rates of one settlement: cache row, snapshot, Mollie's data

vars == << order, provider, pstate, hasTxId, config, upstream, now, fees,
           nextFeeId, info, cache, pc, opts, batch, queue, result, outcome,
           step, known, prev, runs, changes, calm, gw, calc, psp_config,
           clock, service, mollie, rate_cache,
           sumup, web, workers, auto, txcache,
           tenants >>

\* The OAuth credential, the service built from it and what it is run on.
oauthVars == << psp_config, clock, service, mollie >>

\* The state of the periodic task, the cache table of all organizers and
\* their OAuth fields.
lateVars == << auto, txcache, tenants >>

\* What the specifications of single components add to the state.
sideVars == << rate_cache, sumup, web, workers, lateVars >>

\* What sync_payments never writes.
static == << order, provider, pstate, hasTxId, config, gw, calc, oauthVars,
             sideVars >>

\* The state of the sync orchestrator.
syncVars == << order, provider, pstate, hasTxId, config, upstream, now, fees,
               nextFeeId, info, cache, pc, opts, batch, queue, result, outcome,
               step, known, prev, runs, changes, calm >>

\* ---------------------------------------------------------------- helpers
Range(s) == { s[i] : i \in 1..Len(s) }

Min(a, b) == IF a < b THEN a ELSE b

NoPspFees == [present |-> FALSE, fee_amount |-> 0, synced_at |-> 0]

\* The dict a client returns for a transaction, and the absence of one.
NoFeeData == [amount_fee |-> 0, fee_details_text |-> "", settlement_id |-> "",
              status |-> "", amount_gross |-> 0, amount_net |-> 0, currency |-> ""]

NoCacheRow == [present |-> FALSE, modified |-> 0, amount_fee |-> 0,
               amount_gross |-> 0, amount_net |-> 0, currency |-> "",
               settlement_id |-> "", status |-> "", fee_details |-> ""]

NoStep == [payment |-> "p1", ran |-> FALSE, outcome |-> "none", raised |-> FALSE,
           message |-> "none", fetched |-> "no", fee |-> 0, http |-> 0,
           was_synced |-> FALSE, had_fee |-> FALSE]

NoRun == [ran |-> FALSE, batch |-> << >>, synced |-> {}, nfees |-> 0]

NoOpts == [force |-> FALSE, dry_run |-> FALSE, skip_already_synced |-> TRUE]

\* PSPSyncResult.__init__
NewResult == [total_payments |-> 0, synced_payments |-> 0, skipped_payments |-> 0,
              failed_payments |-> 0, total_fees |-> 0, errors |-> << >>]

\* PSPSyncResult.add_success
add_success(r, fee_amount) ==
  [r EXCEPT !.synced_payments = @ + 1, !.total_fees = @ + fee_amount]

\* Variant: a skipped payment is only logged.
add_skip_uncounted(r) == r

\* PSPSyncResult.add_skip
add_skip(r) == [r EXCEPT !.skipped_payments = @ + 1]

\* PSPSyncResult.add_error
add_error(r, payment_id, error) ==
  [r EXCEPT !.failed_payments = @ + 1,
            !.errors = Append(@, [payment_id |-> payment_id, error |-> error])]

\* f"{payment.provider}_fee"
InternalType(prov) == prov \o "_fee"

\* OrderFee.objects.filter(order=payment.order, fee_type=..., internal_type=...)
FeeRowsOf(F, o, prov) ==
  { r \in F : r.order = o /\ r.internal_type = InternalType(prov) }

\* ------------------------------------------------------- gateway clients
\* Which client class serves a provider tag (_fetch_psp_data).
ClientOf(prov) ==
  IF prov \in MollieProviders THEN "mollie"
  ELSE IF prov = "sumup" THEN "sumup" ELSE "none"

\* Statuses that end a request as "not found": [404, 410] for Mollie,
\* 404 alone for SumUp.
NotFoundStatuses(client) ==
  IF client = "mollie" THEN {"404", "410"} ELSE {"404"}

\* Variant: the retry test counts attempts, retry + 1 < MAX_RETRIES.
RECURSIVE MakeRequest_short(_, _, _)
MakeRequest_short(client, responses, retry) ==
  LET status == responses[retry + 1]
      giveUp == [ok |-> FALSE, attempts |-> retry + 1, slept |-> 0]
      again == IF retry + 1 < MAX_RETRIES
               THEN LET r == MakeRequest_short(client, responses, retry + 1)
                    IN  [r EXCEPT !.slept = @ + BACKOFF_FACTOR ^ retry]
               ELSE giveUp
  IN  CASE status = "neterr" -> giveUp
        [] status = "429" -> again
        [] status = "ok" -> [ok |-> TRUE, attempts |-> retry + 1, slept |-> 0]
        [] status \in NotFoundStatuses(client) -> giveUp
        [] OTHER -> again

\* Variant: every retry waits BACKOFF_FACTOR seconds.
RECURSIVE MakeRequest_flat(_, _, _)
MakeRequest_flat(client, responses, retry) ==
  LET status == responses[retry + 1]
      giveUp == [ok |-> FALSE, attempts |-> retry + 1, slept |-> 0]
      again == IF retry < MAX_RETRIES
               THEN LET r == MakeRequest_flat(client, responses, retry + 1)
                    IN  [r EXCEPT !.slept = @ + BACKOFF_FACTOR]
               ELSE giveUp
  IN  CASE status = "neterr" -> giveUp
        [] status = "429" -> again
        [] status = "ok" -> [ok |-> TRUE, attempts |-> retry + 1, slept |-> 0]
        [] status \in NotFoundStatuses(client) -> giveUp
        [] OTHER -> again

\* _make_request(method, url, params, json, retry): responses[k] is the
\* answer to the k-th HTTP attempt of this request ("neterr": the request
\* raised instead of answering).  Returns whether a JSON body came back, the
\* number of the last attempt and the seconds spent in time.sleep.
RECURSIVE MakeRequest(_, _, _)
MakeRequest(client, responses, retry) ==
  LET status == responses[retry + 1]
      giveUp == [ok |-> FALSE, attempts |-> retry + 1, slept |-> 0]
      again == IF retry < MAX_RETRIES
               THEN LET r == MakeRequest(client, responses, retry + 1)
                    IN  [r EXCEPT !.slept = @ + BACKOFF_FACTOR ^ retry]
               ELSE giveUp
  IN  CASE status = "neterr" -> giveUp
        [] status = "429" -> again
        [] status = "ok" -> [ok |-> TRUE, attempts |-> retry + 1, slept |-> 0]
        [] status \in NotFoundStatuses(client) -> giveUp
        [] OTHER -> again

\* The processor keeps answering a transaction the same way until it changes.
ResponsesOf(status) == [k \in 1..(MAX_RETRIES + 1) |-> status]

\* The text a client puts in fee_details_text for a fee taken from the
\* processor's answer.
FeeDetailsText(client) ==
  IF client = "mollie" THEN "Frais Mollie" ELSE "SumUp fee"

\* The dict built from the processor's answer a: _calculate_fees for Mollie
\* (settlement_id is the answer's settlementId), _extract_fees for SumUp
\* (settlement_id is the payout id of the answer's payout event).
FeeData(client, a) ==
  [amount_fee |-> a.fee, fee_details_text |-> FeeDetailsText(client),
   settlement_id |-> a.settlement, status |-> "ok",
   amount_gross |-> a.gross, amount_net |-> a.gross - a.fee, currency |-> "EUR"]

\* The dict _get_from_cache builds from a row: fee_details is stored as
\* {"raw": text} and rendered as ", ".join(f"{k}: {v}"); SumUp returns an
\* empty settlement_id whatever the row holds.
CachedFeeData(client, row) ==
  [amount_fee |-> row.amount_fee, fee_details_text |-> "raw: " \o row.fee_details,
   settlement_id |-> IF client = "mollie" THEN row.settlement_id ELSE "",
   status |-> row.status,
   amount_gross |-> row.amount_gross, amount_net |-> row.amount_net,
   currency |-> row.currency]

\* Variant: the freshness window is ignored, any row is a hit.
GetFromCache_forever(client, C, p, t) ==
  IF ~C[p].present THEN [hit |-> FALSE, data |-> NoFeeData, cache |-> C]
  ELSE [hit |-> TRUE, data |-> CachedFeeData(client, C[p]), cache |-> C]

\* _get_from_cache: a row modified within the last hour is a hit, an older
\* row is deleted by the read.
GetFromCache(client, C, p, t) ==
  IF ~C[p].present THEN [hit |-> FALSE, data |-> NoFeeData, cache |-> C]
  ELSE IF C[p].modified > t - CACHE_HOURS
       THEN [hit |-> TRUE, data |-> CachedFeeData(client, C[p]), cache |-> C]
       ELSE [hit |-> FALSE, data |-> NoFeeData,
             cache |-> [C EXCEPT ![p] = NoCacheRow]]

\* _save_to_cache: update_or_create of the row keyed by (provider, id).
\* Mollie parses createdAt with make_aware(fromisoformat(..)), which raises
\* for a value that already carries an offset; the exception is logged and
\* the row is not written.  SumUp accepts both forms and stores an empty
\* settlement_id.
SaveToCache(client, C, p, fee_data, t, createdAt) ==
  IF client = "mollie" /\ createdAt # "naive" THEN C
  ELSE [C EXCEPT ![p] =
          [present |-> TRUE, modified |-> t,
           amount_fee |-> fee_data.amount_fee,
           amount_gross |-> fee_data.amount_gross,
           amount_net |-> fee_data.amount_net,
           currency |-> fee_data.currency,
           settlement_id |-> IF client = "mollie" THEN fee_data.settlement_id
                             ELSE "",
           status |-> fee_data.status,
           fee_details |-> fee_data.fee_details_text]]

\* get_transaction_details of either client: cache first, then one request
\* for the transaction, fee computation, cache write.
GetTransactionDetails(client, p, C, up, t, createdAt) ==
  LET g == GetFromCache(client, C, p, t) IN
  IF g.hit
  THEN [kind |-> "data", amount_fee |-> g.data.amount_fee, data |-> g.data,
        cache |-> C, http |-> 0]
  ELSE LET rq == MakeRequest(client, ResponsesOf(up[p].status), 0) IN
       IF ~rq.ok
       THEN [kind |-> "none", amount_fee |-> 0, data |-> NoFeeData,
             cache |-> g.cache, http |-> rq.attempts]
       ELSE LET fee_data == FeeData(client, up[p]) IN
            [kind |-> "data", amount_fee |-> fee_data.amount_fee,
             data |-> fee_data,
             cache |-> SaveToCache(client, g.cache, p, fee_data, t, createdAt),
             http |-> rq.attempts]

\* Variant: the provider dispatch comes before the transaction id test.
FetchPspData_provider_first(p, prov, hasTx, cfg, C, up, t, createdAt) ==
  IF ClientOf(prov) = "none" \/ ~cfg[ClientOf(prov)]
  THEN [kind |-> "skip", amount_fee |-> 0, data |-> NoFeeData,
        cache |-> C, http |-> 0]
  ELSE IF ~hasTx
       THEN [kind |-> "none", amount_fee |-> 0, data |-> NoFeeData,
        cache |-> C, http |-> 0]
       ELSE GetTransactionDetails(ClientOf(prov), p, C, up, t, createdAt)

\* _fetch_psp_data: transaction id first, then the provider dispatch.
FetchPspData(p, prov, hasTx, cfg, C, up, t, createdAt) ==
  IF ~hasTx
  THEN [kind |-> "none", amount_fee |-> 0, data |-> NoFeeData,
        cache |-> C, http |-> 0]
  ELSE IF ClientOf(prov) = "none" \/ ~cfg[ClientOf(prov)]
       THEN [kind |-> "skip", amount_fee |-> 0, data |-> NoFeeData,
        cache |-> C, http |-> 0]
       ELSE GetTransactionDetails(ClientOf(prov), p, C, up, t, createdAt)

\* A gateway client seen alone: no request made, no call answered.
NoRequest == [done |-> FALSE, responses |-> << >>, retry |-> 0, ok |-> FALSE,
              attempts |-> 0, slept |-> 0]

NoCall == [called |-> FALSE, kind |-> "none", data |-> NoFeeData, http |-> 0,
           had_row |-> FALSE, row_age |-> 0]

\* PSPConfig.cache_duration in hours: the default of 3600 seconds, and the
\* values an organizer may have configured (1 to 24 hours of the allowed
\* 60..86400 seconds).
DefaultCacheDuration == CACHE_HOURS

CacheDurations == {DefaultCacheDuration, 2 * DefaultCacheDuration}

NoGw == [client |-> "none", answer |-> [status |-> "ok", fee |-> 0, gross |-> 0,
                                         settlement |-> ""],
         createdAt |-> "naive", row |-> NoCacheRow, t |-> 0,
         rq |-> NoRequest, out |-> NoCall, cache_duration |-> DefaultCacheDuration]

\* A payment as the Mollie API describes it: amount in cents, method,
\* details.feeRegion, applicationFee in cents (0: none).
NoPaymentData == [amount |-> 0, method |-> "", feeRegion |-> "none",
                  applicationFee |-> 0]

NoCalc == [phase |-> "none", payment_data |-> NoPaymentData, rates |-> << >>,
           access_token |-> "none",
           exact |-> [none |-> TRUE, fee |-> 0, rate |-> ""],
           fees |-> [amount_fee |-> 0, source |-> "none"]]

\* mollie_token_expires_at is None
NoExpiry == 0 - 1

NotConnected == [mollie_oauth_connected |-> FALSE, mollie_access_token |-> "none",
                 mollie_token_expires_at |-> NoExpiry]

NoService == [built |-> FALSE, access_token |-> "none", refreshes |-> 0,
              refresh_failed |-> FALSE]

\* What a call about settlement rates returned; no such call yet.
NoRatesCall == [kind |-> "none", settled |-> FALSE, access_token |-> "none",
                payment_data |-> NoPaymentData, none |-> TRUE, rates |-> << >>,
                http |-> 0, fees |-> [amount_fee |-> 0, source |-> "none"]]

\* The callers of get_settlement_rates that may run at the same time, and a
\* call that has not started: pc is its position, parsed the table it parsed
\* from its own settlement request, none and rates what it returned.
Callers == {"a", "b"}

NoRatesLookup == [pc |-> "idle", parsed |-> << >>, none |-> TRUE,
                  rates |-> << >>, warned |-> FALSE, raised |-> FALSE]

\* No SettlementRateCache row, empty last_known_settlement_rates.
NoSettlement ==
  [row |-> [present |-> FALSE, rates_data |-> << >>, fetched_at |-> 0],
   last_known |-> << >>,
   api |-> [status |-> "error", rates |-> << >>],
   t |-> 0,
   out |-> NoRatesCall,
   calls |-> [c \in Callers |-> NoRatesLookup]]

\* A SumUp transaction: amount in cents, payment_type, and the events with
\* their type and fee_amount in cents (has_fee: the key is present).
NoTransaction == [amount |-> 0, payment_type |-> "", events |-> << >>]

\* No OAuth flow started: no nonce issued or stored, no callback received.
NoWeb == [session |-> {}, issued |-> {}, exchanges |-> 0,
          last |-> [state |-> "none", code |-> FALSE, accepted |-> FALSE]]

\* The runs that may overlap: the order-paid hook and the periodic task.
Workers == {"hook", "periodic"}

\* No run started: each holds no snapshot of the configuration, no token and
\* no OrderFee it found; no refresh exchange was made.
NoWorkers ==
  [run |-> [w \in Workers |->
              [pc |-> "new", cfg |-> NotConnected, synced |-> FALSE,
               token |-> "none", existing |-> FALSE]],
   exchanges |-> 0, issued |-> "none"]

\* No last_auto_sync yet.
NoStamp == 0 - 1

\* Auto-sync switched off, no tick of the periodic task yet.  t is the time
\* in hours; tick is what the last tick did for the organizer, prior the
\* last_auto_sync it found.
NoAuto ==
  [auto_sync_enabled |-> FALSE, mollie_enabled |-> FALSE, sumup_enabled |-> FALSE,
   auto_sync_interval |-> "6hours", last_auto_sync |-> NoStamp, t |-> 0,
   tick |-> [outcome |-> "none", began |-> 0, ended |-> 0, prior |-> NoStamp]]

\* An empty PSPTransactionCache table, no write yet.
NoTable ==
  [rows |-> {},
   last |-> [organizer |-> "none", psp_provider |-> "none", transaction_id |-> "none",
             amount_fee |-> 0, error |-> FALSE, raised |-> FALSE]]

\* The organizers of the installation.
Organizers == {"org1", "org2"}

\* The CSRF nonces get_random_string can return in this model.
Nonces == {"n1", "n2"}

\* No organizer connected, no nonce in the session, no callback received.
\* issued_for remembers the organizer whose connect view issued a nonce.
NoTenants ==
  [cfg |-> [o \in Organizers |-> NotConnected],
   session |-> {},
   issued_for |-> [n \in Nonces |-> "none"],
   last |-> [csrf |-> "none", organizer |-> "none", accepted |-> FALSE]]

NoLate == auto = NoAuto /\ txcache = NoTable /\ tenants = NoTenants

\* The components seen alone are not in use.
NoSide == rate_cache = NoSettlement /\ sumup = NoTransaction /\ web = NoWeb
  /\ workers = NoWorkers /\ NoLate

\* An organizer without OAuth connection and no service constructed.
NoOAuth ==
  /\ psp_config = NotConnected
  /\ clock = 0
  /\ service = NoService
  /\ mollie = [payment |-> NoPaymentData, rates |-> << >>]

\* ------------------------------------------------------ sync orchestrator
\* Variant: the pre-filter finds nothing.
AlreadySyncedPaymentIds_none(b, F, ord, prov) == {}

\* The pre-filter of sync_payments: ids of payments whose order already has
\* an OrderFee of type '{provider}_fee'.
AlreadySyncedPaymentIds(b, F, ord, prov) ==
  { p \in Range(b) : FeeRowsOf(F, ord[p], prov[p]) # {} }

\* payments = [p for p in payments if p.id not in already_synced_payment_ids]
FilterPayments(b, skip_already_synced, force, F, ord, prov) ==
  IF skip_already_synced /\ ~force
  THEN LET ids == AlreadySyncedPaymentIds(b, F, ord, prov)
       IN  SelectSeq(b, LAMBDA p : p \notin ids)
  ELSE b

\* not force and payment.info_data.get("psp_fees", {}).get("synced_at")
AlreadySynced(I, p, force) == ~force /\ I[p].present

\* Variant: the zero test is missing.
IsZeroFee_never(fee_amount) == FALSE

\* fee_amount == Decimal("0.00")
IsZeroFee(fee_amount) == fee_amount = 0

\* Variant: always create a new row.
CreateOrUpdateOrderFee_append(F, id, o, prov, fee_amount) ==
  [fees |-> F \cup {[id |-> id, order |-> o,
                     internal_type |-> InternalType(prov),
                     value |-> fee_amount]},
   nextFeeId |-> id + 1]

\* Variant: an existing row keeps its value.
CreateOrUpdateOrderFee_keep(F, id, o, prov, fee_amount) ==
  IF FeeRowsOf(F, o, prov) # {}
  THEN [fees |-> F, nextFeeId |-> id]
  ELSE [fees |-> F \cup {[id |-> id, order |-> o,
                          internal_type |-> InternalType(prov),
                          value |-> fee_amount]},
        nextFeeId |-> id + 1]

\* _create_or_update_order_fee: update the first matching row, else create.
CreateOrUpdateOrderFee(F, id, o, prov, fee_amount) ==
  LET existing == FeeRowsOf(F, o, prov) IN
  IF existing # {}
  THEN LET first == CHOOSE r \in existing : \A q \in existing : r.id <= q.id
       IN  [fees |-> (F \ {first}) \cup {[first EXCEPT !.value = fee_amount]},
            nextFeeId |-> id]
  ELSE [fees |-> F \cup {[id |-> id, order |-> o,
                          internal_type |-> InternalType(prov),
                          value |-> fee_amount]},
        nextFeeId |-> id + 1]

\* _update_payment_info_data
UpdatePaymentInfoData(I, p, fee_amount, t) ==
  [I EXCEPT ![p] = [present |-> TRUE, fee_amount |-> fee_amount, synced_at |-> t]]

\* Variant: no transaction around the two writes; an exception in the second
\* write leaves the first one in place.
AtomicWrite_partial(F, id, I, p, o, prov, fee_amount, t, fault) ==
  LET w == CreateOrUpdateOrderFee(F, id, o, prov, fee_amount) IN
  IF fault = "fee_write"
  THEN [raised |-> TRUE, fees |-> F, nextFeeId |-> id, info |-> I]
  ELSE IF fault = "info_write"
  THEN [raised |-> TRUE, fees |-> w.fees, nextFeeId |-> w.nextFeeId, info |-> I]
  ELSE [raised |-> FALSE, fees |-> w.fees, nextFeeId |-> w.nextFeeId,
        info |-> UpdatePaymentInfoData(I, p, fee_amount, t)]

\* with transaction.atomic(): both writes, or on an exception neither.
AtomicWrite(F, id, I, p, o, prov, fee_amount, t, fault) ==
  LET w == CreateOrUpdateOrderFee(F, id, o, prov, fee_amount) IN
  IF fault \in {"fee_write", "info_write"}
  THEN [raised |-> TRUE, fees |-> F, nextFeeId |-> id, info |-> I]
  ELSE [raised |-> FALSE, fees |-> w.fees, nextFeeId |-> w.nextFeeId,
        info |-> UpdatePaymentInfoData(I, p, fee_amount, t)]

\* Variant: the dry_run test is missing.
Materialize_always(dry_run, F, id, I, p, o, prov, fee_amount, t, fault) ==
  AtomicWrite(F, id, I, p, o, prov, fee_amount, t, fault)

\* The tail of _sync_single_payment: a dry run returns before the atomic
\* block, a real run executes it.
Materialize(dry_run, F, id, I, p, o, prov, fee_amount, t, fault) ==
  IF dry_run
  THEN [raised |-> FALSE, fees |-> F, nextFeeId |-> id, info |-> I]
  ELSE AtomicWrite(F, id, I, p, o, prov, fee_amount, t, fault)

\* Variant: the except clause swallows the exception without recording it.
OnException_silent(r, p, msg) == r

\* What the except clause of the for loop records for payment p.
OnException(r, p, msg) == add_error(r, p, "Unexpected error: " \o msg)

\* _sync_single_payment(payment, force, dry_run, result).  fault names the
\* statement that raises in this execution, if it is reached; createdAt is
\* the form of the timestamp in the processor's response.
SyncSinglePayment(p, force, dry_run, r, F, id, I, C, fault, createdAt) ==
  LET same == [raised |-> FALSE, fees |-> F, nextFeeId |-> id, info |-> I,
               cache |-> C, http |-> 0, fetched |-> "no", fee |-> 0,
               outcome |-> "skipped", result |-> add_skip(r)]
  IN
  IF pstate[p] # PAYMENT_STATE_CONFIRMED THEN same
  ELSE IF AlreadySynced(I, p, force) THEN same
  ELSE IF fault = "fetch"
  THEN [same EXCEPT !.raised = TRUE, !.outcome = "failed", !.result = r]
  ELSE
    LET d == FetchPspData(p, provider[p], hasTxId[p], config, C, upstream,
                          now, createdAt)
        got == [same EXCEPT !.cache = d.cache, !.http = d.http,
                            !.fetched = d.kind, !.fee = d.amount_fee]
    IN
    IF d.kind = "none"
    THEN [got EXCEPT !.outcome = "failed",
                     !.result = add_error(r, p, "Failed to fetch PSP data")]
    ELSE IF d.kind = "skip" THEN got
    ELSE IF IsZeroFee(d.amount_fee) THEN got
    ELSE
      LET w == Materialize(dry_run, F, id, I, p, order[p], provider[p],
                           d.amount_fee, now, fault)
      IN  IF w.raised
          THEN [got EXCEPT !.fees = w.fees, !.nextFeeId = w.nextFeeId,
                           !.info = w.info, !.raised = TRUE,
                           !.outcome = "failed", !.result = r]
          ELSE [got EXCEPT !.fees = w.fees, !.nextFeeId = w.nextFeeId,
                           !.info = w.info, !.outcome = "synced",
                           !.result = add_success(r, d.amount_fee)]

\* ---------------------------------------------------------------- actions
Batches ==
  { b \in UNION { [1..n -> Payments] : n \in 1..Cardinality(Payments) } :
      \A i, j \in 1..Len(b) : i # j => b[i] # b[j] }

\* The payment sets explored: p1 is a confirmed Mollie or SumUp payment with
\* a transaction id; p2 is a second payment of the same order and provider,
\* a payment of another order through the other processor or through an
\* unsupported provider (with or without transaction id), or an unconfirmed
\* payment without transaction id.  Both processors are configured or none.
Scenario(ord, prov, st, tx, cfg) ==
  /\ ord["p1"] = "o1" /\ prov["p1"] # "banktransfer"
  /\ st["p1"] = "confirmed" /\ tx["p1"]
  /\ cfg["mollie"] = cfg["sumup"]
  /\ \/ ord["p2"] = "o1" /\ prov["p2"] = prov["p1"] /\ st["p2"] = "confirmed" /\ tx["p2"]
     \/ /\ ord["p2"] = "o2" /\ prov["p2"] \notin {prov["p1"], "banktransfer"}
        /\ st["p2"] = "confirmed" /\ tx["p2"]
     \/ ord["p2"] = "o2" /\ prov["p2"] = "banktransfer" /\ st["p2"] = "confirmed"
     \/ /\ ord["p2"] = "o2" /\ prov["p2"] = prov["p1"]
        /\ st["p2"] = "pending" /\ ~tx["p2"]

\* Nothing synced yet, no call running.
NothingSynced ==
  /\ upstream = [p \in Payments |->
                   [status |-> "ok", fee |-> 29, gross |-> 5000,
                    settlement |-> "s1"]]
  /\ now = 0
  /\ fees = {}
  /\ nextFeeId = 1
  /\ info = [p \in Payments |-> NoPspFees]
  /\ cache = [p \in Payments |-> NoCacheRow]
  /\ pc = "idle"
  /\ opts = NoOpts
  /\ batch = << >>
  /\ queue = << >>
  /\ result = NewResult
  /\ outcome = [p \in Payments |-> "none"]
  /\ step = NoStep
  /\ known = {}
  /\ prev = NoRun
  /\ runs = 0
  /\ changes = 0
  /\ calm = FALSE

Init ==
  /\ order \in [Payments -> Orders]
  /\ provider \in [Payments -> Providers]
  /\ pstate \in [Payments -> PaymentStates]
  /\ hasTxId \in [Payments -> BOOLEAN]
  /\ config \in [{"mollie", "sumup"} -> BOOLEAN]
  /\ Scenario(order, provider, pstate, hasTxId, config)
  /\ NothingSynced
  /\ gw = NoGw
  /\ calc = NoCalc
  /\ NoOAuth
  /\ NoSide

\* sync_payments up to the for loop: the pre-filter and the fresh result.
StartSync(b, force, dry_run, skip_already_synced) ==
  /\ pc = "idle"
  /\ runs < MaxRuns
  /\ LET q == FilterPayments(b, skip_already_synced, force, fees, order, provider)
     IN  /\ queue' = q
         /\ result' = [NewResult EXCEPT !.total_payments = Len(q)]
         /\ outcome' = [p \in Payments |->
                          IF p \in Range(q) THEN "pending"
                          ELSE IF p \in Range(b) THEN "excluded" ELSE "none"]
  /\ known' = { p \in Range(b) :
                  FeeRowsOf(fees, order[p], provider[p]) # {} \/ info[p].present }
  /\ batch' = b
  /\ opts' = [force |-> force, dry_run |-> dry_run,
              skip_already_synced |-> skip_already_synced]
  /\ pc' = "running"
  /\ step' = NoStep
  /\ runs' = runs + 1
  /\ calm' = TRUE
  /\ UNCHANGED << static, upstream, now, fees, nextFeeId, info, cache, prev, changes >>

\* One iteration of the for loop: try _sync_single_payment, except record.
SyncStep(fault, createdAt) ==
  /\ pc = "running"
  /\ queue # << >>
  /\ LET p == Head(queue) IN
     \E s \in {SyncSinglePayment(p, opts.force, opts.dry_run, result, fees,
                                 nextFeeId, info, cache, fault, createdAt)} :
         /\ fees' = s.fees
         /\ nextFeeId' = s.nextFeeId
         /\ info' = s.info
         /\ cache' = s.cache
         /\ result' = IF s.raised THEN OnException(s.result, p, fault) ELSE s.result
         /\ outcome' = [outcome EXCEPT ![p] = s.outcome]
         /\ step' = [payment |-> p, ran |-> TRUE, outcome |-> s.outcome,
                     raised |-> s.raised,
                     message |-> IF s.raised THEN fault ELSE "none",
                     fetched |-> s.fetched, fee |-> s.fee, http |-> s.http,
                     was_synced |-> info[p].present,
                     had_fee |-> FeeRowsOf(fees, order[p], provider[p]) # {}]
         /\ calm' = (calm /\ ~s.raised)
         /\ prev' = IF s.raised THEN NoRun ELSE prev
  /\ queue' = Tail(queue)
  /\ UNCHANGED << static, upstream, now, pc, opts, batch, known, runs, changes >>

\* return result: the caller takes the PSPSyncResult and the call's locals
\* are gone.
ReturnResult ==
  /\ pc = "running"
  /\ queue = << >>
  /\ pc' = "idle"
  /\ prev' = IF calm /\ ~opts.force /\ ~opts.dry_run
              THEN [ran |-> TRUE, batch |-> batch,
                    synced |-> { p \in Payments : outcome[p] = "synced" },
                    nfees |-> Cardinality(fees)]
              ELSE NoRun
  /\ opts' = NoOpts
  /\ batch' = << >>
  /\ result' = NewResult
  /\ outcome' = [p \in Payments |-> "none"]
  /\ step' = NoStep
  /\ known' = {}
  /\ calm' = FALSE
  /\ UNCHANGED << static, upstream, now, fees, nextFeeId, info, cache, queue,
                  runs, changes >>

\* The processor changes what it reports for a transaction.
UpstreamChange(p, status, fee) ==
  /\ pc = "idle"
  /\ changes < MaxChanges
  /\ status = "ok" \/ fee = 0
  /\ << upstream[p].status, upstream[p].fee >> # << status, fee >>
  /\ upstream' = [upstream EXCEPT ![p].status = status, ![p].fee = fee]
  /\ changes' = changes + 1
  /\ calm' = FALSE
  /\ prev' = NoRun
  /\ UNCHANGED << static, now, fees, nextFeeId, info, cache, pc, opts, batch,
                  queue, result, outcome, step, known, runs >>

\* An hour passes.
Tick ==
  /\ pc = "idle"
  /\ now < MaxTime
  /\ now' = now + 1
  /\ calm' = FALSE
  /\ prev' = NoRun
  /\ UNCHANGED << static, upstream, fees, nextFeeId, info, cache, pc, opts,
                  batch, queue, result, outcome, step, known, runs, changes >>

Next ==
  \/ \E b \in Batches, force \in BOOLEAN, dry_run \in BOOLEAN, skip \in BOOLEAN :
       StartSync(b, force, dry_run, skip)
  \/ \E fault \in Faults, createdAt \in CreatedAtFormats : SyncStep(fault, createdAt)
  \/ ReturnResult
  \/ \E p \in Volatile, status \in UpstreamStatuses, fee \in Fees :
       UpstreamChange(p, status, fee)
  \/ Tick

Spec == Init /\ [][Next]_vars

TypeOK ==
  /\ fees \subseteq [id : 1..(nextFeeId - 1), order : Orders,
                     internal_type : { InternalType(x) : x \in Providers }, value : Fees]
  /\ now \in 0..MaxTime
  /\ pc \in {"idle", "running"}
  /\ result.total_payments \in 0..Cardinality(Payments)

\* -------------------------------------------------- Mollie fee calculation
\* Amounts of a payment and the fixed part of a rate are given in cents,
\* percentages in 1/100 percent; a fee is returned in 1/10000 cent, so that
\* fixed + amount * percentage / 100 is an integer.
UnitsPerCent == 100 * 100

CARTE_BANCAIRE == "Credit card - Carte Bancaire"

DOMESTIC == "Credit card - Domestic consumer cards"

OTHER_CARD == "Credit card - Other"

ROUNDING == "Rounding differences"

IDEAL_RATE == "iDEAL"

\* "Rounding" in key
HasRoundingMarker(description) == description = ROUNDING

\* fee_region_mapping.get(fee_region)
FeeRegionMapping(fee_region) ==
  CASE fee_region = "carte-bancaire" -> CARTE_BANCAIRE
    [] fee_region \in {"intra-eu", "eu-card"} -> DOMESTIC
    [] fee_region = "other" -> OTHER_CARD
    [] OTHER -> ""

\* rates is a dict in insertion order: a sequence of entries.
RateKeys(rates) == { rates[i].description : i \in 1..Len(rates) }

RateOf(rates, description) ==
  rates[CHOOSE i \in 1..Len(rates) : rates[i].description = description]

\* MollieOAuthClient.calculate_exact_fee(payment_data, rates)
CalculateExactFee(payment_data, rates) ==
  LET mapped == FeeRegionMapping(payment_data.feeRegion)
      plain == { i \in 1..Len(rates) : ~HasRoundingMarker(rates[i].description) }
      rate_description ==
        IF mapped # "" THEN mapped
        ELSE IF CARTE_BANCAIRE \in RateKeys(rates) THEN CARTE_BANCAIRE
        ELSE IF plain # {}
             THEN rates[CHOOSE i \in plain : \A j \in plain : i <= j].description
        ELSE IF Len(rates) > 0 THEN rates[1].description ELSE ""
  IN  IF rate_description = "" \/ rate_description \notin RateKeys(rates)
      THEN [none |-> TRUE, fee |-> 0, rate |-> rate_description]
      ELSE IF HasRoundingMarker(rate_description)
      THEN [none |-> TRUE, fee |-> 0, rate |-> rate_description]
      ELSE LET rate_data == RateOf(rates, rate_description)
           IN  [none |-> FALSE,
                fee |-> rate_data.fixed * UnitsPerCent
                        + payment_data.amount * rate_data.percentage,
                rate |-> rate_description]

\* The percentage of _estimate_mollie_fees, in 1/100 percent.
EstimatePercentage(method, fee_region) ==
  CASE method = "creditcard" ->
         (IF fee_region = "carte-bancaire" THEN 119
          ELSE IF fee_region \in {"eu-card", "european-eea-card"} THEN 179
          ELSE 289)
    [] method \in {"ideal", "bancontact"} -> 0
    [] method = "paypal" -> 349
    [] method = "sofort" -> 129
    [] OTHER -> 179

\* Decimal("0.29"), the fixed part of every estimate
ESTIMATE_FIXED == 29

\* Variant: the flat-fee methods fall into the default branch.
EstimateMollieFees_default(payment_data) ==
  ESTIMATE_FIXED * UnitsPerCent
  + payment_data.amount
    * (IF payment_data.method \in {"ideal", "bancontact"} THEN 179
       ELSE EstimatePercentage(payment_data.method, payment_data.feeRegion))

\* MollieClient._estimate_mollie_fees(payment_data, amount_gross)
EstimateMollieFees(payment_data) ==
  ESTIMATE_FIXED * UnitsPerCent
  + payment_data.amount
    * EstimatePercentage(payment_data.method, payment_data.feeRegion)

\* MollieClient._get_exact_fees_with_settlement_rates: rates are those of the
\* payment's settlement or, for an unsettled payment, the last known ones.
GetExactFeesWithSettlementRates(payment_data, access_token, rates) ==
  IF access_token = "none" THEN [none |-> TRUE, fee |-> 0, rate |-> ""]
  ELSE IF rates = << >> THEN [none |-> TRUE, fee |-> 0, rate |-> ""]
  ELSE CalculateExactFee(payment_data, rates)

\* MollieClient._calculate_fees: the exact fee when an access token and rates
\* give one, else the estimate; an application fee is added on top.
CalculateFees(payment_data, access_token, rates) ==
  LET exact == GetExactFeesWithSettlementRates(payment_data, access_token, rates)
      base == IF access_token # "none" /\ ~exact.none
              THEN [amount_fee |-> exact.fee, source |-> "exact"]
              ELSE [amount_fee |-> EstimateMollieFees(payment_data),
                    source |-> "estimated"]
  IN  [amount_fee |-> base.amount_fee
                      + (IF payment_data.applicationFee > 0
                         THEN payment_data.applicationFee * UnitsPerCent ELSE 0),
       source |-> base.source]

\* The orchestrator at rest, with two confirmed Mollie payments.
SyncIdle ==
  /\ order = [p \in Payments |-> IF p = "p1" THEN "o1" ELSE "o2"]
  /\ provider = [p \in Payments |-> "mollie"]
  /\ pstate = [p \in Payments |-> "confirmed"]
  /\ hasTxId = [p \in Payments |-> TRUE]
  /\ config = [c \in {"mollie", "sumup"} |-> TRUE]
  /\ NothingSynced

\* -------------------------------------- a Mollie fee calculation seen alone
Amounts == {2000, 2001, 5000}

Methods == {"creditcard", "ideal", "bancontact", "paypal", "sofort", "klarna"}

FeeRegions == {"carte-bancaire", "intra-eu", "eu-card", "european-eea-card",
               "other", "none"}

PaymentData ==
  [amount : Amounts, method : Methods, feeRegion : FeeRegions,
   applicationFee : {0, 10}]

Rate(description, fixed, percentage) ==
  [description |-> description, fixed |-> fixed, percentage |-> percentage]

\* Rate tables as get_settlement_rates builds them from a settlement.
RateTables ==
  { << >>,
    << Rate(CARTE_BANCAIRE, 25, 120) >>,
    << Rate(ROUNDING, 1, 0) >>,
    << Rate(ROUNDING, 1, 0), Rate(OTHER_CARD, 25, 280) >>,
    << Rate(DOMESTIC, 25, 180), Rate(CARTE_BANCAIRE, 25, 120) >>,
    << Rate(IDEAL_RATE, 29, 0), Rate(ROUNDING, 1, 0) >> }

FeeInit ==
  /\ SyncIdle
  /\ gw = NoGw
  /\ NoOAuth
  /\ NoSide
  /\ \E pd \in PaymentData, rates \in RateTables, token \in {"none", "t1"} :
       calc = [NoCalc EXCEPT !.phase = "input", !.payment_data = pd,
                             !.rates = rates, !.access_token = token]

\* oauth_client.calculate_exact_fee(payment_data, rates)
FsExactFee ==
  /\ calc.phase = "input"
  /\ calc' = [calc EXCEPT !.phase = "exact",
                          !.exact = CalculateExactFee(calc.payment_data, calc.rates)]
  /\ UNCHANGED << syncVars, gw, oauthVars, sideVars >>

\* client._calculate_fees(payment_data, settlement_data)
FsCalculateFees ==
  /\ calc.phase = "input"
  /\ calc' = [calc EXCEPT !.phase = "fees",
                          !.exact = GetExactFeesWithSettlementRates(
                                      calc.payment_data, calc.access_token,
                                      calc.rates),
                          !.fees = CalculateFees(calc.payment_data,
                                                 calc.access_token, calc.rates)]
  /\ UNCHANGED << syncVars, gw, oauthVars, sideVars >>

FeeNext == FsExactFee \/ FsCalculateFees

FeeSpec == FeeInit /\ [][FeeNext]_vars

\* ------------------------------------------------- OAuth token lifecycle
\* Variant: the token counts as valid up to its expiry.
IsTokenValid_no_buffer(expires_at, t) == expires_at # NoExpiry /\ t < expires_at

\* MollieOAuthClient.is_token_valid(expires_at)
IsTokenValid(expires_at, t) ==
  expires_at # NoExpiry /\ t < expires_at - BUFFER_MINUTES

\* Variant: a failed refresh leaves the credential connected.
EnsureValidMollieToken_stays_connected(cfg, t, refresh_ok, expires_in) ==
  IF ~cfg.mollie_oauth_connected
  THEN [access_token |-> "none", psp_config |-> cfg, refreshes |-> 0,
        refresh_failed |-> FALSE]
  ELSE IF IsTokenValid(cfg.mollie_token_expires_at, t)
  THEN [access_token |-> cfg.mollie_access_token, psp_config |-> cfg,
        refreshes |-> 0, refresh_failed |-> FALSE]
  ELSE IF refresh_ok
  THEN [access_token |-> "t2",
        psp_config |-> [cfg EXCEPT !.mollie_access_token = "t2",
                                   !.mollie_token_expires_at = t + expires_in],
        refreshes |-> 1, refresh_failed |-> FALSE]
  ELSE [access_token |-> "none", psp_config |-> cfg, refreshes |-> 1,
        refresh_failed |-> TRUE]

\* PSPSyncService._ensure_valid_mollie_token: the stored token while it is
\* valid, else one refresh-token exchange; refresh_ok says whether the
\* exchange succeeds, expires_in is the lifetime Mollie grants.
EnsureValidMollieToken(cfg, t, refresh_ok, expires_in) ==
  IF ~cfg.mollie_oauth_connected
  THEN [access_token |-> "none", psp_config |-> cfg, refreshes |-> 0,
        refresh_failed |-> FALSE]
  ELSE IF IsTokenValid(cfg.mollie_token_expires_at, t)
  THEN [access_token |-> cfg.mollie_access_token, psp_config |-> cfg,
        refreshes |-> 0, refresh_failed |-> FALSE]
  ELSE IF refresh_ok
  THEN [access_token |-> "t2",
        psp_config |-> [cfg EXCEPT !.mollie_access_token = "t2",
                                   !.mollie_token_expires_at = t + expires_in],
        refreshes |-> 1, refresh_failed |-> FALSE]
  ELSE [access_token |-> "none",
        psp_config |-> [cfg EXCEPT !.mollie_oauth_connected = FALSE],
        refreshes |-> 1, refresh_failed |-> TRUE]

\* What the Mollie client built with access_token makes of the data Mollie
\* holds for the transaction: the answer as get_transaction_details sees it.
MollieAnswer(m, access_token) ==
  [status |-> "ok",
   fee |-> CalculateFees(m.payment, access_token, m.rates).amount_fee,
   gross |-> m.payment.amount * UnitsPerCent,
   settlement |-> "s1"]

\* Lifetimes of a token in minutes: shorter than the buffer, and an hour.
ExpiresIn == {1, 60}

OAuthInit ==
  /\ SyncIdle
  /\ gw = NoGw
  /\ calc = NoCalc
  /\ NoSide
  /\ clock = 0
  /\ service = NoService
  /\ \/ psp_config = NotConnected
     \/ \E expires_at \in {NoExpiry, 0, 2, 6, 10} :
          psp_config = [mollie_oauth_connected |-> TRUE,
                        mollie_access_token |-> "t1",
                        mollie_token_expires_at |-> expires_at]
  /\ \E pd \in PaymentData, rates \in RateTables :
       /\ pd.amount \in {2001, 5000}
       /\ pd.method \in {"ideal", "bancontact", "klarna", "creditcard"}
       /\ pd.feeRegion = "carte-bancaire"
       /\ Len(rates) = 0 \/ (Len(rates) = 1 /\ rates[1].description = CARTE_BANCAIRE)
       /\ mollie = [payment |-> pd, rates |-> rates]

\* A minute passes, between calls or while a batch is running.
Minute ==
  /\ clock < MaxClock
  /\ clock' = clock + 1
  /\ UNCHANGED << syncVars, gw, calc, psp_config, service, mollie, sideVars >>

\* PSPSyncService(organizer): the token is checked, refreshed if needed, and
\* handed to the Mollie client; from then on the client computes the fee of
\* the transaction with that token.
NewService(refresh_ok, expires_in) ==
  /\ pc = "idle"
  /\ LET e == IF config["mollie"] /\ psp_config.mollie_oauth_connected
              THEN EnsureValidMollieToken(psp_config, clock, refresh_ok, expires_in)
              ELSE [access_token |-> "none", psp_config |-> psp_config,
                    refreshes |-> 0, refresh_failed |-> FALSE]
     IN  /\ psp_config' = e.psp_config
         /\ service' = [built |-> TRUE, access_token |-> e.access_token,
                        refreshes |-> e.refreshes,
                        refresh_failed |-> e.refresh_failed]
         /\ upstream' = [upstream EXCEPT !["p1"] = MollieAnswer(mollie, e.access_token)]
  /\ UNCHANGED << order, provider, pstate, hasTxId, config, now, fees, nextFeeId,
                  info, cache, pc, opts, batch, queue, result, outcome, step,
                  known, prev, runs, changes, calm, gw, calc, clock, mollie,
                  sideVars >>

\* The OAuth callback: the authorization code is exchanged and the tenant is
\* connected.
Reconnect(expires_in) ==
  /\ pc = "idle"
  /\ ~psp_config.mollie_oauth_connected
  /\ psp_config' = [mollie_oauth_connected |-> TRUE, mollie_access_token |-> "t1",
                    mollie_token_expires_at |-> clock + expires_in]
  /\ UNCHANGED << syncVars, gw, calc, clock, service, mollie, sideVars >>

\* service.sync_payments([p1], ...)
ServiceSync(force, dry_run, skip_already_synced) ==
  /\ service.built
  /\ StartSync(<< "p1" >>, force, dry_run, skip_already_synced)

OAuthNext ==
  \/ Minute
  \/ \E refresh_ok \in BOOLEAN, expires_in \in ExpiresIn :
       NewService(refresh_ok, expires_in)
  \/ \E expires_in \in ExpiresIn : Reconnect(expires_in)
  \/ \E force \in BOOLEAN, dry_run \in BOOLEAN, skip \in BOOLEAN :
       ServiceSync(force, dry_run, skip)
  \/ SyncStep("none", "aware")
  \/ ReturnResult

OAuthSpec == OAuthInit /\ [][OAuthNext]_vars

\* ---------------------------------------- two sync runs of one tenant
\* Both runs sync the confirmed Mollie payment p1 with force=False,
\* dry_run=False, skip_already_synced=True.  A step is one database
\* statement or one HTTP exchange; nothing in the code holds a lock.
RaceInit ==
  /\ SyncIdle
  /\ gw = NoGw
  /\ calc = NoCalc
  /\ clock = 0
  /\ service = NoService
  /\ mollie = [payment |-> NoPaymentData, rates |-> << >>]
  /\ NoSide
  /\ \/ psp_config = NotConnected
     \/ \E expires_at \in {2, 10} :
          psp_config = [mollie_oauth_connected |-> TRUE,
                        mollie_access_token |-> "t1",
                        mollie_token_expires_at |-> expires_at]

\* The values of the variables a run never writes.
RaceFrame ==
  UNCHANGED << order, provider, pstate, hasTxId, config, upstream, now, cache, pc,
               opts, batch, queue, result, outcome, step, known, prev, runs,
               changes, calm, gw, calc, clock, service, mollie, rate_cache,
               sumup, web, lateVars >>

\* The caller reads PSPConfig and the payment, and PSPSyncService.__init__
\* tests the token of that PSPConfig object.
RcConstruct(w) ==
  /\ workers.run[w].pc = "new"
  /\ LET refresh == /\ psp_config.mollie_oauth_connected
                    /\ ~IsTokenValid(psp_config.mollie_token_expires_at, clock)
     IN  workers' = [workers EXCEPT !.run[w] =
           [pc |-> IF refresh THEN "exchange" ELSE "prefilter",
            cfg |-> psp_config,
            synced |-> info["p1"].present,
            token |-> IF psp_config.mollie_oauth_connected /\ ~refresh
                      THEN psp_config.mollie_access_token ELSE "none",
            existing |-> FALSE]]
  /\ UNCHANGED << psp_config, fees, nextFeeId, info >>
  /\ RaceFrame

\* oauth_client.refresh_access_token(refresh_token): Mollie issues a new
\* pair of tokens.
RcExchange(w) ==
  /\ workers.run[w].pc = "exchange"
  /\ LET pair == IF workers.exchanges = 0 THEN "t2" ELSE "t3"
     IN  workers' = [workers EXCEPT !.run[w].pc = "store",
                                    !.run[w].token = pair,
                                    !.exchanges = @ + 1,
                                    !.issued = pair]
  /\ UNCHANGED << psp_config, fees, nextFeeId, info >>
  /\ RaceFrame

\* psp_config.save(update_fields=[tokens, expiry])
RcStore(w) ==
  /\ workers.run[w].pc = "store"
  /\ psp_config' = [psp_config EXCEPT
                      !.mollie_access_token = workers.run[w].token,
                      !.mollie_token_expires_at = clock + 60]
  /\ workers' = [workers EXCEPT !.run[w].pc = "prefilter"]
  /\ UNCHANGED << fees, nextFeeId, info >>
  /\ RaceFrame

\* sync_payments: the payment is dropped if an OrderFee of its order and
\* type exists; _sync_single_payment: skipped if the payment object read by
\* the caller carries synced_at.
RcPrefilter(w) ==
  /\ workers.run[w].pc = "prefilter"
  /\ workers' = [workers EXCEPT !.run[w].pc =
                   IF FeeRowsOf(fees, order["p1"], provider["p1"]) # {}
                      \/ workers.run[w].synced
                   THEN "done" ELSE "lookup"]
  /\ UNCHANGED << psp_config, fees, nextFeeId, info >>
  /\ RaceFrame

\* The fee is fetched, and _create_or_update_order_fee looks for an existing
\* OrderFee: OrderFee.objects.filter(...).first()
RcLookup(w) ==
  /\ workers.run[w].pc = "lookup"
  /\ workers' = [workers EXCEPT
                   !.run[w].pc = "upsert",
                   !.run[w].existing = FeeRowsOf(fees, order["p1"], provider["p1"]) # {}]
  /\ UNCHANGED << psp_config, fees, nextFeeId, info >>
  /\ RaceFrame

\* existing_fee.save() or OrderFee.objects.create(...), then the annotation.
RcUpsert(w) ==
  /\ workers.run[w].pc = "upsert"
  /\ LET fee_amount == upstream["p1"].fee
         rows == FeeRowsOf(fees, order["p1"], provider["p1"])
     IN  /\ IF workers.run[w].existing
            THEN /\ fees' = { [r EXCEPT !.value = IF r \in rows THEN fee_amount ELSE @]
                               : r \in fees }
                 /\ nextFeeId' = nextFeeId
            ELSE /\ fees' = fees \cup {[id |-> nextFeeId, order |-> order["p1"],
                                         internal_type |-> InternalType(provider["p1"]),
                                         value |-> fee_amount]}
                 /\ nextFeeId' = nextFeeId + 1
         /\ info' = UpdatePaymentInfoData(info, "p1", fee_amount, now)
  /\ workers' = [workers EXCEPT !.run[w].pc = "done"]
  /\ UNCHANGED psp_config
  /\ RaceFrame

RaceNext ==
  \E w \in Workers :
    \/ RcConstruct(w)
    \/ RcExchange(w)
    \/ RcStore(w)
    \/ RcPrefilter(w)
    \/ RcLookup(w)
    \/ RcUpsert(w)

RaceSpec == RaceInit /\ [][RaceNext]_vars

\* ------------------------------------------------------ OAuth callback
\* The state parameter of a callback: absent, not decodable, or the encoding
\* of a nonce ("n3": a nonce no session ever stored).
CallbackStates == {"missing", "garbage", "n3"} \cup Nonces

\* Variant: the nonce stays in the session after use.
OAuthCallback_reusable(W, cfg, state, code, exchange_ok, t) ==
  LET last == [state |-> state, code |-> code, accepted |-> FALSE] IN
  IF ~code \/ state \in {"missing", "garbage"} \/ state \notin W.session
  THEN [web |-> [W EXCEPT !.last = last], psp_config |-> cfg]
  ELSE [web |-> [W EXCEPT !.exchanges = @ + 1,
                          !.last = [last EXCEPT !.accepted = TRUE]],
        psp_config |-> IF exchange_ok
                       THEN [mollie_oauth_connected |-> TRUE,
                             mollie_access_token |-> IF W.exchanges = 0 THEN "t1" ELSE "t2",
                             mollie_token_expires_at |-> t + 60]
                       ELSE cfg]

\* MollieCallbackView.get: without code or state, with a state that does not
\* decode, or with a nonce the session does not hold, nothing happens;
\* otherwise the nonce is deleted from the session, the code is exchanged
\* and, if that succeeds, the tokens are stored and the tenant is connected.
OAuthCallback(W, cfg, state, code, exchange_ok, t) ==
  LET last == [state |-> state, code |-> code, accepted |-> FALSE] IN
  IF ~code \/ state \in {"missing", "garbage"} \/ state \notin W.session
  THEN [web |-> [W EXCEPT !.last = last], psp_config |-> cfg]
  ELSE [web |-> [W EXCEPT !.session = @ \ {state},
                          !.exchanges = @ + 1,
                          !.last = [last EXCEPT !.accepted = TRUE]],
        psp_config |-> IF exchange_ok
                       THEN [mollie_oauth_connected |-> TRUE,
                             mollie_access_token |-> IF W.exchanges = 0 THEN "t1" ELSE "t2",
                             mollie_token_expires_at |-> t + 60]
                       ELSE cfg]

CallbackInit ==
  /\ SyncIdle
  /\ gw = NoGw
  /\ calc = NoCalc
  /\ NoOAuth
  /\ NoSide

\* MollieConnectView.get: a fresh nonce is stored in the session and sent to
\* Mollie inside the state parameter.
CbConnect(nonce) ==
  /\ nonce \notin web.issued
  /\ web' = [web EXCEPT !.session = @ \cup {nonce}, !.issued = @ \cup {nonce}]
  /\ UNCHANGED << syncVars, gw, calc, oauthVars, rate_cache, sumup, workers,
                  lateVars >>

\* A GET on the callback URL, from Mollie's redirect or from anybody else.
CbCallback(state, code, exchange_ok) ==
  /\ LET r == OAuthCallback(web, psp_config, state, code, exchange_ok, clock)
     IN  web' = r.web /\ psp_config' = r.psp_config
  /\ UNCHANGED << syncVars, gw, calc, clock, service, mollie, rate_cache, sumup,
                  workers, lateVars >>

CallbackNext ==
  \/ \E nonce \in Nonces : CbConnect(nonce)
  \/ \E state \in CallbackStates, code \in BOOLEAN, exchange_ok \in BOOLEAN :
       CbCallback(state, code, exchange_ok)

CallbackSpec == CallbackInit /\ [][CallbackNext]_vars

\* ------------------------------------------------ SumUp fee extraction
\* Decimal.quantize(Decimal("0.01")) of n / d cents: round half to even.
Quantize(n, d) ==
  LET q == n \div d
      r == n % d
  IN  IF 2 * r > d \/ (2 * r = d /\ q % 2 = 1) THEN q + 1 ELSE q

\* SumUpClient._extract_fees(transaction_data): the fee_amount of the first
\* event that is a payout or carries a fee_amount, if it is not zero; with
\* no events at all, 2.5 % (ECOM) or 1.69 % of the amount.
ExtractFees(transaction_data) ==
  LET events == transaction_data.events
      paying == { i \in 1..Len(events) :
                    /\ events[i].type = "PAYOUT" \/ events[i].has_fee
                    /\ events[i].has_fee /\ events[i].fee_amount # 0 }
      first == CHOOSE i \in paying : \A j \in paying : i <= j
  IN  IF paying # {} THEN events[first].fee_amount
      ELSE IF Len(events) > 0 THEN 0
      ELSE IF transaction_data.payment_type = "ECOM"
           THEN Quantize(transaction_data.amount * 25, 1000)
           ELSE Quantize(transaction_data.amount * 169, 10000)

SumUpEvents ==
  LET payout(fee) == [type |-> "PAYOUT", has_fee |-> TRUE, fee_amount |-> fee]
      plain == [type |-> "REFUND", has_fee |-> FALSE, fee_amount |-> 0]
  IN  { << >>, << payout(95) >>, << payout(0) >>, << plain, payout(95) >>,
        << payout(0 - 95) >>, << plain >> }

SumUpInit ==
  /\ order = [p \in Payments |-> IF p = "p1" THEN "o1" ELSE "o2"]
  /\ provider = [p \in Payments |-> "sumup"]
  /\ pstate = [p \in Payments |-> "confirmed"]
  /\ hasTxId = [p \in Payments |-> TRUE]
  /\ config = [c \in {"mollie", "sumup"} |-> TRUE]
  /\ NothingSynced
  /\ gw = NoGw
  /\ calc = NoCalc
  /\ NoOAuth
  /\ NoSide

\* SumUp holds transaction_data for the transaction of p1; from then on
\* get_transaction_details answers with the fee extracted from it.
SuTransaction(transaction_data) ==
  /\ pc = "idle"
  /\ sumup = NoTransaction
  /\ sumup' = transaction_data
  /\ upstream' = [upstream EXCEPT !["p1"] =
                    [status |-> "ok", fee |-> ExtractFees(transaction_data),
                     gross |-> transaction_data.amount, settlement |-> ""]]
  /\ UNCHANGED << order, provider, pstate, hasTxId, config, now, fees, nextFeeId,
                  info, cache, pc, opts, batch, queue, result, outcome, step,
                  known, prev, runs, changes, calm, gw, calc, oauthVars,
                  rate_cache, web, workers, lateVars >>

SumUpNext ==
  \/ \E amount \in {5000, 5020}, payment_type \in {"ECOM", "POS"},
        events \in SumUpEvents :
       SuTransaction([amount |-> amount, payment_type |-> payment_type,
                      events |-> events])
  \/ \E force \in BOOLEAN, dry_run \in BOOLEAN, skip \in BOOLEAN :
       sumup # NoTransaction /\ StartSync(<< "p1" >>, force, dry_run, skip)
  \/ SyncStep("none", "aware")
  \/ ReturnResult

SumUpSpec == SumUpInit /\ [][SumUpNext]_vars

\* ------------------------------------- sync_organizer_payments with a cap
\* The organizer's payments in the order of order_by("-payment_date"): p2 was
\* paid after p1.
PaymentsByDateDesc == << "p2", "p1" >>

\* The list sync_organizer_payments hands to sync_payments when no date
\* filter is given: the confirmed payments of the Mollie providers and of
\* SumUp, most recent first, cut to the first max_payments (0: no cap).
OrganizerPayments(max_payments) ==
  LET qs == SelectSeq(PaymentsByDateDesc,
                      LAMBDA p : /\ pstate[p] = PAYMENT_STATE_CONFIRMED
                                 /\ provider[p] \in MollieProviders \cup {"sumup"})
  IN  IF max_payments > 0 THEN SubSeq(qs, 1, Min(max_payments, Len(qs))) ELSE qs

\* sync_organizer_payments(max_payments=N) with force=False, dry_run=False:
\* sync_payments is called with its default skip_already_synced=True.
OrgStart(max_payments) ==
  StartSync(OrganizerPayments(max_payments), FALSE, FALSE, TRUE)

OrganizerNext ==
  \/ \E max_payments \in 0..Cardinality(Payments) : OrgStart(max_payments)
  \/ \E fault \in Faults, createdAt \in CreatedAtFormats : SyncStep(fault, createdAt)
  \/ ReturnResult
  \/ Tick

OrganizerSpec == Init /\ [][OrganizerNext]_vars

\* ------------------------------- the OAuth callback and the organizers
\* The organizer slugs a state parameter can name ("org9": no such organizer).
StateOrganizers == Organizers \cup {"org9"}

\* MollieCallbackView.get for a state that decodes to the nonce csrf and the
\* slug organizer_slug, with a code: the session must hold
\* mollie_oauth_state_<csrf>, which is deleted; the organizer named in the
\* state and its PSPConfig are loaded; the code is exchanged and, if that
\* succeeds, the tokens are stored in that PSPConfig.
TenantCallback(T, csrf, organizer_slug, exchange_ok, t) ==
  LET last == [csrf |-> csrf, organizer |-> organizer_slug, accepted |-> FALSE] IN
  IF csrf \notin T.session
  THEN [T EXCEPT !.last = last]
  ELSE IF organizer_slug \notin Organizers
  THEN [T EXCEPT !.session = @ \ {csrf}, !.last = last]
  ELSE [T EXCEPT !.session = @ \ {csrf},
                 !.last = [last EXCEPT !.accepted = TRUE],
                 !.cfg[organizer_slug] =
                    IF exchange_ok
                    THEN [mollie_oauth_connected |-> TRUE,
                          mollie_access_token |-> "t1",
                          mollie_token_expires_at |-> t + 60]
                    ELSE @]

BindingInit ==
  /\ SyncIdle
  /\ gw = NoGw
  /\ calc = NoCalc
  /\ NoOAuth
  /\ rate_cache = NoSettlement /\ sumup = NoTransaction /\ web = NoWeb
  /\ workers = NoWorkers /\ auto = NoAuto /\ txcache = NoTable
  /\ tenants = NoTenants

\* MollieConnectView.get of an organizer, opened by a user with the
\* permission for it: a fresh nonce is stored in the session as
\* mollie_oauth_state_<nonce>; the state sent to Mollie carries the nonce
\* and the organizer's slug.
BdConnect(organizer, nonce) ==
  /\ tenants.issued_for[nonce] = "none"
  /\ tenants' = [tenants EXCEPT !.session = @ \cup {nonce},
                                !.issued_for[nonce] = organizer]
  /\ UNCHANGED << syncVars, gw, calc, oauthVars, rate_cache, sumup, web, workers,
                  auto, txcache >>

\* A GET on the callback URL in that session, from Mollie's redirect or
\* typed by the user, with any state.
BdCallback(csrf, organizer_slug, exchange_ok) ==
  /\ tenants' = TenantCallback(tenants, csrf, organizer_slug, exchange_ok, clock)
  /\ UNCHANGED << syncVars, gw, calc, oauthVars, rate_cache, sumup, web, workers,
                  auto, txcache >>

BindingNext ==
  \/ \E organizer \in Organizers, nonce \in Nonces : BdConnect(organizer, nonce)
  \/ \E csrf \in Nonces \cup {"n3"}, organizer_slug \in StateOrganizers,
        exchange_ok \in BOOLEAN :
       BdCallback(csrf, organizer_slug, exchange_ok)

BindingSpec == BindingInit /\ [][BindingNext]_vars

\* ------------------------------ the transaction cache of all organizers
TransactionIds == {"tr_1", "tr_2"}

\* Variant: rows are unique per organizer, provider and transaction id.
UpdateOrCreate_per_tenant(T, organizer, psp_provider, transaction_id, amount_fee) ==
  LET mine == { r \in T : /\ r.organizer = organizer
                          /\ r.psp_provider = psp_provider
                          /\ r.transaction_id = transaction_id }
  IN  [table |-> (T \ mine) \cup
                   {[organizer |-> organizer, psp_provider |-> psp_provider,
                     transaction_id |-> transaction_id, amount_fee |-> amount_fee]},
       error |-> FALSE]

\* PSPTransactionCache.objects.update_or_create(organizer=, psp_provider=,
\* transaction_id=, defaults=...): the organizer's row for the transaction is
\* updated; without one a row is inserted, which the unique_together of
\* (psp_provider, transaction_id) refuses with an IntegrityError when another
\* organizer's row holds the pair.
UpdateOrCreate(T, organizer, psp_provider, transaction_id, amount_fee) ==
  LET mine == { r \in T : /\ r.organizer = organizer
                          /\ r.psp_provider = psp_provider
                          /\ r.transaction_id = transaction_id }
      taken == \E r \in T : /\ r.psp_provider = psp_provider
                            /\ r.transaction_id = transaction_id
      row == [organizer |-> organizer, psp_provider |-> psp_provider,
              transaction_id |-> transaction_id, amount_fee |-> amount_fee]
  IN  IF mine # {} THEN [table |-> (T \ mine) \cup {row}, error |-> FALSE]
      ELSE IF taken THEN [table |-> T, error |-> TRUE]
      ELSE [table |-> T \cup {row}, error |-> FALSE]

TableInit ==
  /\ SyncIdle
  /\ gw = NoGw
  /\ calc = NoCalc
  /\ NoOAuth
  /\ rate_cache = NoSettlement /\ sumup = NoTransaction /\ web = NoWeb
  /\ workers = NoWorkers /\ auto = NoAuto /\ tenants = NoTenants
  /\ txcache = NoTable

\* client._save_to_cache(transaction_id, fee_data, ...) of the Mollie or the
\* SumUp client of an organizer: update_or_create inside try, an exception
\* is logged and not raised.
TcSaveToCache(organizer, psp_provider, transaction_id, amount_fee) ==
  /\ LET r == UpdateOrCreate(txcache.rows, organizer, psp_provider,
                             transaction_id, amount_fee)
     IN  txcache' = [rows |-> r.table,
                     last |-> [organizer |-> organizer, psp_provider |-> psp_provider,
                               transaction_id |-> transaction_id,
                               amount_fee |-> amount_fee, error |-> r.error,
                               raised |-> FALSE]]
  /\ UNCHANGED << syncVars, gw, calc, oauthVars, rate_cache, sumup, web, workers,
                  auto, tenants >>

\* client._get_from_cache(transaction_id) finds the organizer's row expired
\* and deletes it.
TcEvict(organizer, psp_provider, transaction_id) ==
  /\ \E r \in txcache.rows :
       /\ r.organizer = organizer /\ r.psp_provider = psp_provider
       /\ r.transaction_id = transaction_id
       /\ txcache' = [txcache EXCEPT !.rows = @ \ {r}]
  /\ UNCHANGED << syncVars, gw, calc, oauthVars, rate_cache, sumup, web, workers,
                  auto, tenants >>

TableNext ==
  \E organizer \in Organizers, psp_provider \in {"mollie", "sumup"},
     transaction_id \in TransactionIds :
    \/ \E amount_fee \in {29, 49} :
         TcSaveToCache(organizer, psp_provider, transaction_id, amount_fee)
    \/ TcEvict(organizer, psp_provider, transaction_id)

TableSpec == TableInit /\ [][TableNext]_vars

\* ------------------------------------------------- the periodic auto-sync
AutoSyncIntervals == {"hourly", "6hours", "daily", "weekly"}

\* interval_hours.get(psp_config.auto_sync_interval, 6)
IntervalHours(auto_sync_interval) ==
  CASE auto_sync_interval = "hourly" -> 1
    [] auto_sync_interval = "6hours" -> 6
    [] auto_sync_interval = "daily" -> 24
    [] OTHER -> 6

\* Variant: last_auto_sync is written before sync_payments is called.
AutoSyncTenant_stamp_first(A, raises, d) ==
  IF ~A.auto_sync_enabled \/ ~(A.mollie_enabled \/ A.sumup_enabled)
     \/ (A.last_auto_sync # NoStamp
         /\ A.t - A.last_auto_sync < IntervalHours(A.auto_sync_interval))
  THEN [A EXCEPT !.tick = [outcome |-> "skipped", began |-> A.t, ended |-> A.t,
                           prior |-> A.last_auto_sync]]
  ELSE [A EXCEPT !.last_auto_sync = A.t, !.t = A.t + d,
                 !.tick = [outcome |-> IF raises THEN "raised" ELSE "synced",
                           began |-> A.t, ended |-> A.t + d,
                           prior |-> A.last_auto_sync]]

\* The body of auto_sync_payment_fees for one organizer at time A.t: the
\* PSPConfig is in the queryset only with auto_sync_enabled; it is passed
\* over without an enabled PSP or when the interval has not elapsed since
\* last_auto_sync; else the payments are synced, which takes d hours, and
\* last_auto_sync is set to the time after it.  An exception on the way
\* (raises) is logged and ends the organizer's turn.
AutoSyncTenant(A, raises, d) ==
  LET should_sync ==
        \/ A.last_auto_sync = NoStamp
        \/ A.t - A.last_auto_sync >= IntervalHours(A.auto_sync_interval)
  IN  IF ~A.auto_sync_enabled \/ ~(A.mollie_enabled \/ A.sumup_enabled)
         \/ ~should_sync
      THEN [A EXCEPT !.tick = [outcome |-> "skipped", began |-> A.t, ended |-> A.t,
                           prior |-> A.last_auto_sync]]
      ELSE IF raises
      THEN [A EXCEPT !.t = A.t + d,
                     !.tick = [outcome |-> "raised", began |-> A.t,
                               ended |-> A.t + d, prior |-> A.last_auto_sync]]
      ELSE [A EXCEPT !.last_auto_sync = A.t + d, !.t = A.t + d,
                     !.tick = [outcome |-> "synced", began |-> A.t,
                               ended |-> A.t + d, prior |-> A.last_auto_sync]]

AutoSyncInit ==
  /\ SyncIdle
  /\ gw = NoGw
  /\ calc = NoCalc
  /\ NoOAuth
  /\ rate_cache = NoSettlement /\ sumup = NoTransaction /\ web = NoWeb
  /\ workers = NoWorkers /\ txcache = NoTable /\ tenants = NoTenants
  /\ \E enabled \in BOOLEAN, m \in BOOLEAN, s \in BOOLEAN,
        interval \in AutoSyncIntervals :
       auto = [NoAuto EXCEPT !.auto_sync_enabled = enabled, !.mollie_enabled = m,
                             !.sumup_enabled = s, !.auto_sync_interval = interval]

\* A tick of pretix's periodic task reaches the organizer.
AsTick(raises, d) ==
  /\ auto.t + d <= MaxHours
  /\ auto' = AutoSyncTenant(auto, raises, d)
  /\ UNCHANGED << syncVars, gw, calc, oauthVars, rate_cache, sumup, web, workers,
                  txcache, tenants >>

\* An hour passes.
AsHour ==
  /\ auto.t < MaxHours
  /\ auto' = [auto EXCEPT !.t = @ + 1]
  /\ UNCHANGED << syncVars, gw, calc, oauthVars, rate_cache, sumup, web, workers,
                  txcache, tenants >>

AutoSyncNext ==
  \/ \E raises \in BOOLEAN, d \in {0, 1} : AsTick(raises, d)
  \/ AsHour

AutoSyncSpec == AutoSyncInit /\ [][AutoSyncNext]_vars

\* ------------------------------- two lookups of one uncached settlement
\* Variant: the row is written with update_or_create.
CreateRateRow_overwrite(S, rates_dict) ==
  [store |-> [S EXCEPT !.row = [present |-> TRUE, rates_data |-> rates_dict,
                                fetched_at |-> S.t]],
   error |-> FALSE]

\* SettlementRateCache.objects.create(settlement_id=..., rates_data=...):
\* settlement_id is unique, so the insert of a second row for the id fails
\* with an IntegrityError and leaves the existing row.
CreateRateRow(S, rates_dict) ==
  IF S.row.present
  THEN [store |-> S, error |-> TRUE]
  ELSE [store |-> [S EXCEPT !.row = [present |-> TRUE, rates_data |-> rates_dict,
                                     fetched_at |-> S.t]],
        error |-> FALSE]

FetchInit ==
  /\ SyncIdle
  /\ gw = NoGw
  /\ calc = NoCalc
  /\ NoOAuth
  /\ sumup = NoTransaction /\ web = NoWeb /\ workers = NoWorkers /\ NoLate
  /\ \E status \in {"ok", "error"}, rates \in RateTables :
       rate_cache = [NoSettlement EXCEPT !.api = [status |-> status, rates |-> rates]]

\* Step 1 of get_settlement_rates: SettlementRateCache.objects.get; the row's
\* rates_data is returned, DoesNotExist leads on to the settlement request.
FtGet(c) ==
  /\ rate_cache.calls[c].pc = "idle"
  /\ rate_cache' =
       IF rate_cache.row.present
       THEN [rate_cache EXCEPT !.calls[c].pc = "done", !.calls[c].none = FALSE,
                               !.calls[c].rates = rate_cache.row.rates_data]
       ELSE [rate_cache EXCEPT !.calls[c].pc = "missed"]
  /\ UNCHANGED << syncVars, gw, calc, oauthVars, sumup, web, workers, lateVars >>

\* Steps 2 and 3: the settlement request and the parse of its costs; None is
\* returned when the request fails or no rate was parsed.
FtFetch(c) ==
  /\ rate_cache.calls[c].pc = "missed"
  /\ rate_cache' =
       IF rate_cache.api.status # "ok" \/ rate_cache.api.rates = << >>
       THEN [rate_cache EXCEPT !.calls[c].pc = "done"]
       ELSE [rate_cache EXCEPT !.calls[c].pc = "fetched",
                               !.calls[c].parsed = rate_cache.api.rates]
  /\ UNCHANGED << syncVars, gw, calc, oauthVars, sumup, web, workers, lateVars >>

\* Steps 4 and 5: the row is created, an exception of the insert is logged
\* as a warning; last_known_settlement_rates is overwritten; the parsed
\* table is returned.
FtStore(c) ==
  /\ rate_cache.calls[c].pc = "fetched"
  /\ LET rates_dict == rate_cache.calls[c].parsed
         created == CreateRateRow(rate_cache, rates_dict)
     IN  rate_cache' = [created.store EXCEPT
                          !.last_known = rates_dict,
                          !.calls[c].pc = "done",
                          !.calls[c].warned = created.error,
                          !.calls[c].none = FALSE,
                          !.calls[c].rates = rates_dict]
  /\ UNCHANGED << syncVars, gw, calc, oauthVars, sumup, web, workers, lateVars >>

\* Mollie answers the settlement request differently from now on.
FtSettlementChanges(status, rates) ==
  /\ rate_cache.api # [status |-> status, rates |-> rates]
  /\ rate_cache' = [rate_cache EXCEPT !.api = [status |-> status, rates |-> rates]]
  /\ UNCHANGED << syncVars, gw, calc, oauthVars, sumup, web, workers, lateVars >>

FetchNext ==
  \/ \E c \in Callers : FtGet(c) \/ FtFetch(c) \/ FtStore(c)
  \/ \E status \in {"ok", "error"}, rates \in RateTables :
       FtSettlementChanges(status, rates)

FetchSpec == FetchInit /\ [][FetchNext]_vars

\* ------------------------------------------- settlement rates seen alone
\* Variant: a row older than CACHE_HOURS is deleted and fetched again, as in
\* the transaction cache.
GetSettlementRates_ttl(S) ==
  IF S.row.present /\ S.row.fetched_at > S.t - CACHE_HOURS
  THEN [none |-> FALSE, rates |-> S.row.rates_data, http |-> 0, store |-> S]
  ELSE IF S.api.status # "ok" \/ S.api.rates = << >>
  THEN [none |-> TRUE, rates |-> << >>, http |-> 1,
        store |-> [S EXCEPT !.row = NoSettlement.row]]
  ELSE [none |-> FALSE, rates |-> S.api.rates, http |-> 1,
        store |-> [S EXCEPT !.row = [present |-> TRUE, rates_data |-> S.api.rates,
                                     fetched_at |-> S.t],
                            !.last_known = S.api.rates]]

\* Variant: an empty parse is stored like any other table.
GetSettlementRates_caches_empty(S) ==
  IF S.row.present
  THEN [none |-> S.row.rates_data = << >>, rates |-> S.row.rates_data,
        http |-> 0, store |-> S]
  ELSE IF S.api.status # "ok"
  THEN [none |-> TRUE, rates |-> << >>, http |-> 1, store |-> S]
  ELSE [none |-> S.api.rates = << >>, rates |-> S.api.rates, http |-> 1,
        store |-> [S EXCEPT !.row = [present |-> TRUE, rates_data |-> S.api.rates,
                                     fetched_at |-> S.t],
                            !.last_known = S.api.rates]]

\* MollieOAuthClient.get_settlement_rates(settlement_id, organizer): the
\* cached row if there is one; else one settlement request, the costs parsed
\* into a rate table, the table stored as a new row and as the organizer's
\* last_known_settlement_rates.
GetSettlementRates(S) ==
  IF S.row.present
  THEN [none |-> FALSE, rates |-> S.row.rates_data, http |-> 0, store |-> S]
  ELSE IF S.api.status # "ok" \/ S.api.rates = << >>
  THEN [none |-> TRUE, rates |-> << >>, http |-> 1, store |-> S]
  ELSE [none |-> FALSE, rates |-> S.api.rates, http |-> 1,
        store |-> [S EXCEPT !.row = [present |-> TRUE, rates_data |-> S.api.rates,
                                     fetched_at |-> S.t],
                            !.last_known = S.api.rates]]

\* The rate lookup of _get_exact_fees_with_settlement_rates: none without an
\* access token, the settlement's rates for a payment with a settlementId,
\* last_known_settlement_rates for one without.
LookupRates(S, settled, access_token) ==
  IF access_token = "none"
  THEN [none |-> TRUE, rates |-> << >>, http |-> 0, store |-> S]
  ELSE IF settled THEN GetSettlementRates(S)
  ELSE [none |-> S.last_known = << >>, rates |-> S.last_known, http |-> 0,
        store |-> S]

RatesInit ==
  /\ SyncIdle
  /\ gw = NoGw
  /\ calc = NoCalc
  /\ NoOAuth
  /\ sumup = NoTransaction /\ web = NoWeb /\ workers = NoWorkers /\ NoLate
  /\ \E status \in {"ok", "error"}, rates \in RateTables,
        last_known \in { << >>, << Rate(OTHER_CARD, 25, 280) >> } :
       rate_cache = [NoSettlement EXCEPT !.api = [status |-> status, rates |-> rates],
                                         !.last_known = last_known]

\* oauth_client.get_settlement_rates(settlement_id, organizer)
RsGetSettlementRates ==
  /\ LET g == GetSettlementRates(rate_cache)
     IN  rate_cache' = [g.store EXCEPT !.out =
           [NoRatesCall EXCEPT !.kind = "rates", !.none = g.none,
                               !.rates = g.rates, !.http = g.http]]
  /\ UNCHANGED << syncVars, gw, calc, oauthVars, sumup, web, workers, lateVars >>

\* client._calculate_fees(payment_data, settlement_data) for a payment with
\* (settled) or without a settlementId.
RsCalculateFees(payment_data, settled, access_token) ==
  /\ LET g == LookupRates(rate_cache, settled, access_token)
     IN  rate_cache' = [g.store EXCEPT !.out =
           [kind |-> "fees", settled |-> settled, access_token |-> access_token,
            payment_data |-> payment_data, none |-> g.none, rates |-> g.rates,
            http |-> g.http,
            fees |-> CalculateFees(payment_data, access_token, g.rates)]]
  /\ UNCHANGED << syncVars, gw, calc, oauthVars, sumup, web, workers, lateVars >>

\* Mollie answers the settlement request differently from now on.
RsSettlementChanges(status, rates) ==
  /\ rate_cache.api # [status |-> status, rates |-> rates]
  /\ rate_cache' = [rate_cache EXCEPT !.api = [status |-> status, rates |-> rates]]
  /\ UNCHANGED << syncVars, gw, calc, oauthVars, sumup, web, workers, lateVars >>

\* An hour passes.
RsTick ==
  /\ rate_cache.t < MaxAge
  /\ rate_cache' = [rate_cache EXCEPT !.t = @ + 1]
  /\ UNCHANGED << syncVars, gw, calc, oauthVars, sumup, web, workers, lateVars >>

RatesNext ==
  \/ RsGetSettlementRates
  \/ \E pd \in PaymentData, settled \in BOOLEAN, token \in {"none", "t1"} :
       /\ pd.amount = 2000 /\ pd.method = "creditcard" /\ pd.applicationFee = 0
       /\ pd.feeRegion \in {"carte-bancaire", "intra-eu", "none"}
       /\ RsCalculateFees(pd, settled, token)
  \/ \E status \in {"ok", "error"}, rates \in RateTables :
       RsSettlementChanges(status, rates)
  \/ RsTick

RatesSpec == RatesInit /\ [][RatesNext]_vars

\* ------------------------------------------ a gateway client seen alone
\* What an HTTP attempt can end in: a status, or an exception of the
\* requests library ("neterr": connection error, timeout).
HttpOutcomes == {"ok", "404", "410", "429", "500", "neterr"}

\* The answers to the attempts of one request: k times a, then b.
Answers(a, b, k) == [i \in 1..(MAX_RETRIES + 1) |-> IF i <= k THEN a ELSE b]

GatewayInit ==
  /\ SyncIdle
  /\ calc = NoCalc
  /\ NoOAuth
  /\ NoSide
  /\ \E client \in {"mollie", "sumup"}, status \in HttpOutcomes, fee \in {0, 29},
        settlement \in {"", "s1"}, createdAt \in CreatedAtFormats,
        cache_duration \in CacheDurations :
       gw = [NoGw EXCEPT !.client = client, !.cache_duration = cache_duration,
                         !.answer = [status |-> status, fee |-> fee,
                                     gross |-> 5000, settlement |-> settlement],
                         !.createdAt = createdAt]

\* client.get_transaction_details(transaction_id) for the one transaction.
GwGetDetails ==
  /\ ~gw.rq.done
  /\ LET C == [q \in {"tx"} |-> gw.row]
         up == [q \in {"tx"} |-> gw.answer]
         d == GetTransactionDetails(gw.client, "tx", C, up, gw.t, gw.createdAt)
     IN  gw' = [gw EXCEPT !.row = d.cache["tx"],
                          !.out = [called |-> TRUE, kind |-> d.kind,
                                   data |-> d.data, http |-> d.http,
                                   had_row |-> gw.row.present,
                                   row_age |-> gw.t - gw.row.modified]]
  /\ UNCHANGED << syncVars, calc, oauthVars, sideVars >>

\* An hour passes.
GwTick ==
  /\ ~gw.rq.done
  /\ gw.t < MaxAge
  /\ gw' = [gw EXCEPT !.t = @ + 1]
  /\ UNCHANGED << syncVars, calc, oauthVars, sideVars >>

\* client._make_request(method, url, params, json, retry) against a
\* processor whose attempts end as the sequence responses says.
GwRequest(responses, retry) ==
  /\ ~gw.rq.done /\ ~gw.out.called /\ gw.t = 0
  /\ LET r == MakeRequest(gw.client, responses, retry)
     IN  gw' = [gw EXCEPT !.rq = [done |-> TRUE, responses |-> responses,
                                 retry |-> retry, ok |-> r.ok,
                                 attempts |-> r.attempts, slept |-> r.slept]]
  /\ UNCHANGED << syncVars, calc, oauthVars, sideVars >>

GatewayNext ==
  \/ GwGetDetails
  \/ GwTick
  \/ \E a, b \in HttpOutcomes, k \in 0..(MAX_RETRIES + 1), retry \in 0..MAX_RETRIES :
       GwRequest(Answers(a, b, k), retry)

GatewaySpec == GatewayInit /\ [][GatewayNext]_vars

\* ================================================================ claims
\* A loop iteration of sync_payments is taken for the head of the queue.
Iteration == pc = "running" /\ queue # << >> /\ queue' = Tail(queue)

\* The OrderFee rows that belong to payment p: same order, type '{provider}_fee'.
RowsFor(F, p) ==
  { r \in F : r.order = order[p] /\ r.internal_type = provider[p] \o "_fee" }

\* The transaction cache holds a row for p that is less than an hour old.
FreshCacheRow(p) == cache[p].present /\ now - cache[p].modified < CACHE_HOURS

\* The loop of the running call has processed every payment.
CallFinished == pc = "running" /\ queue = << >>

\* C1: calling sync_payments twice in a row on the same payments with
\* force=False and dry_run=False, nothing having changed or raised in
\* between, leaves the number of OrderFee rows after the second call equal to
\* the number after the first, and the second call counts every payment the
\* first call synced in skipped_payments.
C1_IdempotentAndSkipped ==
  (CallFinished /\ calm /\ ~opts.force /\ ~opts.dry_run /\ prev.ran
     /\ Range(prev.batch) = Range(batch))
  => /\ Cardinality(fees) = prev.nfees
     /\ \A p \in prev.synced : outcome[p] = "skipped"
     /\ result.skipped_payments >= Cardinality(prev.synced)

\* The part of C1 that the code keeps: the row count is unchanged and no
\* payment synced by the first call is synced or failed by the second.
C1_CountUnchanged ==
  (CallFinished /\ calm /\ ~opts.force /\ ~opts.dry_run /\ prev.ran
     /\ Range(prev.batch) = Range(batch))
  => /\ Cardinality(fees) = prev.nfees
     /\ \A p \in prev.synced : outcome[p] \in {"skipped", "excluded"}
     /\ \A p \in prev.synced :
          outcome[p] = "skipped" <=> ~opts.skip_already_synced

\* C2: after any sequence of sync operations there is at most one OrderFee
\* row per (order of the payment, '{provider}_fee'), and an iteration that
\* finds a row for its payment keeps the set of rows' ids.
C2_AtMostOneFeeRecord ==
  [][ /\ \A p \in Payments : Cardinality(RowsFor(fees', p)) <= 1
      /\ \A r1, r2 \in fees' :
           (r1.order = r2.order /\ r1.internal_type = r2.internal_type) => r1 = r2
      /\ (Iteration /\ RowsFor(fees, Head(queue)) # {})
           => { r.id : r \in fees' } = { r.id : r \in fees } ]_vars

C2_Witness ==
  /\ step.ran /\ step.outcome = "synced" /\ step.had_fee /\ ~opts.dry_run
  /\ ~step.was_synced
  /\ Cardinality(fees) = 1

C4_ZeroFeeNeverMaterialized ==
  [][ /\ (Iteration /\ step'.fetched = "data" /\ step'.fee = 0)
         => /\ step'.outcome = "skipped"
            /\ result'.skipped_payments = result.skipped_payments + 1
            /\ result'.synced_payments = result.synced_payments
            /\ fees' = fees
            /\ info' = info
      /\ \A r \in fees' : r.value # 0 ]_vars

C4_Witness ==
  /\ step.ran /\ step.fetched = "data" /\ step.fee = 0 /\ step.outcome = "skipped"
  /\ step.http > 0
  /\ RowsFor(fees, step.payment) = {}

\* The outcome the rule table gives payment p of the iteration being taken:
\* the first rule that applies, in the order (1)..(7).
RuleOutcome(p) ==
  IF pstate[p] # "confirmed" THEN "skipped"
  ELSE IF info[p].present /\ ~opts.force THEN "skipped"
  ELSE IF ~hasTxId[p] THEN "failed"
  ELSE IF provider[p] \notin {"mollie", "sumup"} THEN "skipped"
  ELSE IF ~config[provider[p]] THEN "skipped"
  ELSE IF step'.fetched = "none" THEN "failed"
  ELSE IF step'.fee = 0 THEN "skipped"
  ELSE "synced"

\* C5: every payment handed to _sync_single_payment ends in exactly one of
\* Synced, Skipped, Failed (exactly one counter of the result grows by one),
\* and when no exception is raised the outcome is the one given by the first
\* applicable rule: not confirmed, already synced without force, no
\* transaction id, provider unsupported or not configured, no gateway data,
\* zero fee, otherwise synced.
C5_RuleOrder ==
  [][ Iteration =>
        /\ step'.outcome \in {"synced", "skipped", "failed"}
        /\ outcome'[Head(queue)] = step'.outcome
        /\ result'.synced_payments + result'.skipped_payments
             + result'.failed_payments
           = result.synced_payments + result.skipped_payments
             + result.failed_payments + 1
        /\ result'.synced_payments =
             result.synced_payments + (IF step'.outcome = "synced" THEN 1 ELSE 0)
        /\ result'.skipped_payments =
             result.skipped_payments + (IF step'.outcome = "skipped" THEN 1 ELSE 0)
        /\ result'.failed_payments =
             result.failed_payments + (IF step'.outcome = "failed" THEN 1 ELSE 0)
        /\ ~step'.raised => step'.outcome = RuleOutcome(Head(queue)) ]_vars

\* A payment without transaction id and with an unsupported provider fails:
\* rule (3) is applied before rule (4).
C5_Witness ==
  /\ step.ran /\ ~step.raised /\ step.outcome = "failed"
  /\ ~hasTxId[step.payment] /\ provider[step.payment] = "banktransfer"
  /\ pstate[step.payment] = "confirmed"
  /\ result.failed_payments = 1

\* C6: in a call with force=False and skip_already_synced=True, a payment
\* that had a matching OrderFee row or a synced_at annotation when the call
\* began causes no HTTP request and no write to the cache, the OrderFee rows
\* or the annotations: a payment with a row is removed by the pre-filter,
\* which writes nothing, and never enters the loop; a payment with only the
\* annotation is skipped by the loop before the gateway client is called.
C6_AlreadySyncedShortCircuit ==
  [][ /\ (pc = "running" /\ pc' = "running") => Range(queue') \subseteq Range(queue)
      /\ (Iteration /\ ~opts.force /\ opts.skip_already_synced
            /\ Head(queue) \in known)
         => /\ step'.http = 0
            /\ step'.outcome = "skipped"
            /\ cache' = cache
            /\ fees' = fees
            /\ info' = info
      /\ (pc = "idle" /\ pc' = "running" /\ ~opts'.force
            /\ opts'.skip_already_synced)
         => /\ known' = { p \in Range(batch') :
                            RowsFor(fees, p) # {} \/ info[p].present }
            /\ \A p \in known' : RowsFor(fees, p) # {} => p \notin Range(queue')
            /\ cache' = cache /\ fees' = fees /\ info' = info ]_vars

\* The second payment of an order whose first payment was synced earlier is
\* excluded by the pre-filter while the other payment of the batch is handled.
C6_Witness ==
  /\ CallFinished /\ ~opts.force /\ opts.skip_already_synced
  /\ known # {} /\ Len(batch) = 2
  /\ \E p \in known : outcome[p] = "excluded" /\ ~info[p].present

\* C7: when processing a payment raises, sync_payments records exactly one
\* failed entry for that payment with the exception message, goes on with
\* the next payment in the order received, and returns its result only after
\* the last payment.
C7_FailureIsolation ==
  [][ /\ (Iteration /\ step'.raised)
         => /\ result'.failed_payments = result.failed_payments + 1
            /\ result'.synced_payments = result.synced_payments
            /\ result'.skipped_payments = result.skipped_payments
            /\ result'.errors =
                 Append(result.errors,
                        [payment_id |-> Head(queue),
                         error |-> "Unexpected error: " \o step'.message])
            /\ pc' = "running"
      /\ (pc = "running" /\ queue # << >>)
         => /\ pc' = "running"
            /\ queue' = Tail(queue)
            /\ step'.payment = Head(queue)
            /\ result'.total_payments = result.total_payments
      /\ (pc = "idle" /\ pc' = "running")
         => /\ \A i, j \in 1..Len(queue') :
                 i < j => \E k, l \in 1..Len(batch') :
                            k < l /\ batch'[k] = queue'[i] /\ batch'[l] = queue'[j]
            /\ result'.total_payments = Len(queue') ]_vars

\* The first payment of a batch raised, the second was synced after it.
C7_Witness ==
  /\ CallFinished /\ Len(batch) = 2
  /\ result.failed_payments = 1 /\ Len(result.errors) = 1
  /\ result.errors[1].payment_id = batch[1]
  /\ result.errors[1].error = "Unexpected error: info_write"
  /\ step.ran /\ step.payment = batch[2] /\ step.outcome = "synced"
  /\ result.synced_payments = 1

C9_DryRunWritesNoFeeData ==
  [][ (Iteration /\ opts.dry_run) =>
        /\ fees' = fees
        /\ nextFeeId' = nextFeeId
        /\ info' = info
        /\ (step'.fetched = "data" /\ step'.fee # 0)
           => /\ step'.outcome = "synced"
              /\ result'.synced_payments = result.synced_payments + 1
              /\ result'.total_fees = result.total_fees + step'.fee ]_vars

\* A dry run counted a payment as synced and stored nothing for it.
C9_Witness ==
  /\ step.ran /\ opts.dry_run /\ step.outcome = "synced" /\ step.fee # 0
  /\ fees = {} /\ ~info[step.payment].present
  /\ result.total_fees = step.fee /\ result.synced_payments = 1

\* C10: a sync call with dry_run=True modifies no persisted state: OrderFee
\* rows, annotations and PSPTransactionCache rows are the same after every
\* iteration as before it.
C10_DryRunLeavesDatabaseUnchanged ==
  [][ (pc = "running" /\ opts.dry_run) =>
        /\ fees' = fees
        /\ info' = info
        /\ cache' = cache ]_vars

\* C11 as stated: when the processor answers every attempt for a payment's
\* transaction with 429, the client makes exactly MAX_RETRIES HTTP attempts,
\* the payment is counted as failed and the loop goes on.
C11_ThreeAttempts ==
  [][ (Iteration /\ upstream[Head(queue)].status = "429" /\ step'.http > 0)
      => /\ step'.http = MAX_RETRIES
         /\ step'.outcome = "failed"
         /\ queue' = Tail(queue) /\ pc' = "running" ]_vars

\* C11 amended: the client makes exactly MAX_RETRIES + 1 HTTP attempts (the
\* first one and MAX_RETRIES retries), then returns nothing; the payment is
\* counted as failed with the error "Failed to fetch PSP data", no OrderFee
\* row, annotation or cache row is written for it, no exception reaches the
\* loop, and the loop goes on with the remaining payments.
C11_RetryBound ==
  [][ (Iteration /\ upstream[Head(queue)].status = "429" /\ step'.http > 0)
      => /\ step'.http = MAX_RETRIES + 1
         /\ step'.fetched = "none"
         /\ ~step'.raised
         /\ step'.outcome = "failed"
         /\ result'.failed_payments = result.failed_payments + 1
         /\ result'.errors = Append(result.errors,
                                    [payment_id |-> Head(queue),
                                     error |-> "Failed to fetch PSP data"])
         /\ fees' = fees /\ info' = info
         /\ ~cache'[Head(queue)].present
         /\ queue' = Tail(queue) /\ pc' = "running" ]_vars

\* The rate-limited first payment of a batch failed after MAX_RETRIES + 1
\* attempts and the second payment is still to be processed.
C11_Witness ==
  /\ step.ran /\ step.http = MAX_RETRIES + 1 /\ step.outcome = "failed"
  /\ upstream[step.payment].status = "429"
  /\ pc = "running" /\ queue # << >>
  /\ result.failed_payments = 1

\* C12: a request whose attempt ends in a network-level exception is retried
\* like an HTTP error, up to MAX_RETRIES retries; one network exception
\* followed by a successful answer yields the successful result.
C12_NetworkErrorsRetried ==
  (/\ gw.rq.done /\ gw.rq.retry < MAX_RETRIES
   /\ gw.rq.responses[gw.rq.retry + 1] = "neterr"
   /\ gw.rq.responses[gw.rq.retry + 2] = "ok")
  => /\ gw.rq.ok
     /\ gw.rq.attempts = gw.rq.retry + 2

\* C13: in both clients an attempt answered 404 or 410 ends the request as
\* not found at once: it is the last attempt and nothing is slept for it,
\* whatever the retry counter.
C13_NotFoundIsTerminal ==
  (gw.rq.done /\ gw.rq.responses[gw.rq.retry + 1] \in {"404", "410"})
  => /\ ~gw.rq.ok
     /\ gw.rq.attempts = gw.rq.retry + 1
     /\ gw.rq.slept = 0

\* get_transaction_details is called for the transaction.
GwCall == ~gw.rq.done /\ gw'.out.called /\ gw'.t = gw.t

C15_CacheTransparency ==
  [][ (GwCall /\ gw.row.present /\ gw.t - gw.row.modified < CACHE_HOURS)
      => gw'.out.data = FeeData(gw.client, gw.answer) ]_vars

\* C18: the fee returned by calculate_exact_fee is fixed + amount *
\* percentage / 100 rounded to whole cents: it carries no fraction of a cent
\* and lies within half a cent of the unrounded value.
C18_ExactFeeRounded ==
  (calc.phase = "exact" /\ ~calc.exact.none)
  => LET rate_data == RateOf(calc.rates, calc.exact.rate)
         raw == rate_data.fixed * UnitsPerCent
                + calc.payment_data.amount * rate_data.percentage
     IN  /\ calc.exact.fee % UnitsPerCent = 0
         /\ 2 * (calc.exact.fee - raw) <= UnitsPerCent
         /\ 2 * (raw - calc.exact.fee) <= UnitsPerCent

\* The only category calculate_exact_fee could select carries the marker.
RoundingOnly(payment_data, rates) ==
  /\ FeeRegionMapping(payment_data.feeRegion) = ""
  /\ rates # << >>
  /\ \A i \in 1..Len(rates) : HasRoundingMarker(rates[i].description)

\* C19: a category whose label carries the accounting-adjustment marker is
\* never the applicable rate, and when only such a category could be
\* selected the fee calculation of the payment produces no fee amount.
C19_RoundingProducesNoFee ==
  /\ (calc.phase \in {"exact", "fees"} /\ ~calc.exact.none)
     => ~HasRoundingMarker(calc.exact.rate)
  /\ (/\ calc.phase = "fees" /\ calc.access_token # "none"
      /\ calc.payment_data.applicationFee = 0
      /\ RoundingOnly(calc.payment_data, calc.rates))
     => calc.fees.amount_fee = 0

\* A step that constructs a PSPSyncService.
Construction ==
  /\ pc = "idle" /\ pc' = "idle" /\ clock' = clock /\ service'.built
  /\ ~(psp_config'.mollie_oauth_connected /\ ~psp_config.mollie_oauth_connected)

\* C16: for a connected tenant whose token expires more than BUFFER_MINUTES
\* from now, the construction hands over the stored token, makes no refresh
\* request and leaves the stored credential unchanged; when the expiry is
\* BUFFER_MINUTES or less away, past or unset, it makes exactly one refresh
\* request; a tenant that is not connected causes no refresh request.
C16_TokenRefreshBuffer ==
  [][ Construction =>
        LET expires_at == psp_config.mollie_token_expires_at
            connected == psp_config.mollie_oauth_connected
        IN  /\ (connected /\ expires_at # NoExpiry /\ expires_at - clock > 5)
               => /\ service'.refreshes = 0
                  /\ service'.access_token = psp_config.mollie_access_token
                  /\ psp_config' = psp_config
            /\ (connected /\ (expires_at = NoExpiry \/ expires_at - clock <= 5))
               => service'.refreshes = 1
            /\ ~connected
               => service'.refreshes = 0 /\ psp_config' = psp_config ]_vars

\* At minute 1 a service was constructed with one refresh request that
\* stored a new token valid for an hour.
C16_Witness ==
  /\ service.built /\ service.refreshes = 1 /\ service.access_token = "t2"
  /\ clock = 1
  /\ psp_config.mollie_access_token = "t2"
  /\ psp_config.mollie_token_expires_at = clock + 60

\* C17: a construction whose refresh request fails marks the credential
\* disconnected and hands no token to the Mollie client; the sync run of that
\* service computes the fee of its payment by estimation and counts no
\* failure; a construction for a disconnected tenant makes no refresh
\* request.
C17_RefreshFailureDegrades ==
  [][ /\ (Construction /\ service'.refresh_failed)
         => /\ ~psp_config'.mollie_oauth_connected
            /\ service'.access_token = "none"
      /\ (Iteration /\ service.refresh_failed /\ ~info[Head(queue)].present)
         => /\ step'.outcome = "synced"
            /\ step'.fee = EstimateMollieFees(mollie.payment)
                           + mollie.payment.applicationFee * UnitsPerCent
            /\ result'.failed_payments = result.failed_payments
      /\ (Construction /\ ~psp_config.mollie_oauth_connected)
         => /\ service'.refreshes = 0
            /\ service'.access_token = "none" ]_vars

\* The service whose refresh failed has synced its payment with an estimated
\* fee, and the tenant is disconnected.
C17_Witness ==
  /\ CallFinished /\ step.ran /\ service.refresh_failed
  /\ ~psp_config.mollie_oauth_connected
  /\ step.outcome = "synced" /\ result.synced_payments = 1
  /\ result.failed_payments = 0
  /\ step.fee = EstimateMollieFees(mollie.payment)
                + mollie.payment.applicationFee * UnitsPerCent

\* The tenant has no OAuth connection and the service holds no token.
EstimationOnly ==
  ~psp_config.mollie_oauth_connected /\ service.access_token = "none"

\* The first real sync of the payment left exactly one OrderFee row of value
\* fee and a result of one synced payment and no failed one.
SyncedWithFee(fee) ==
  /\ step'.outcome = "synced"
  /\ step'.fee = fee
  /\ \E r \in fees' : RowsFor(fees', Head(queue)) = {r} /\ r.value = fee
  /\ result'.synced_payments = 1
  /\ result'.failed_payments = 0

\* C20 as stated: without OAuth, every confirmed ideal or bancontact payment
\* gets exactly the flat fee of 0.29 and every payment with an unknown
\* method gets 0.29 plus 1.79 % of the amount, one OrderFee row holds that
\* value and the result counts one synced payment and no failed one.
C20_EstimationEndToEnd ==
  [][ (Iteration /\ EstimationOnly /\ ~opts.dry_run /\ ~info[Head(queue)].present)
      => LET pd == mollie.payment IN
         /\ pd.method \in {"ideal", "bancontact"}
            => SyncedWithFee(ESTIMATE_FIXED * UnitsPerCent)
         /\ pd.method = "klarna"
            => SyncedWithFee(ESTIMATE_FIXED * UnitsPerCent + pd.amount * 179) ]_vars

\* C20 amended: the same for a payment that carries no application fee; an
\* application fee carried by the payment is added to the estimated fee.
C20_EstimationPlusApplicationFee ==
  [][ (Iteration /\ EstimationOnly /\ ~opts.dry_run /\ ~info[Head(queue)].present)
      => LET pd == mollie.payment
             platform == pd.applicationFee * UnitsPerCent
         IN
         /\ pd.method \in {"ideal", "bancontact"}
            => SyncedWithFee(ESTIMATE_FIXED * UnitsPerCent + platform)
         /\ pd.method = "klarna"
            => SyncedWithFee(ESTIMATE_FIXED * UnitsPerCent + pd.amount * 179
                             + platform) ]_vars

\* An ideal payment of 50.00 without application fee was synced for a tenant
\* without OAuth: one OrderFee row of 0.29, one synced payment, none failed.
C20_Witness ==
  /\ CallFinished /\ step.ran /\ EstimationOnly /\ ~opts.dry_run
  /\ mollie.payment.method = "ideal" /\ mollie.payment.amount = 5000
  /\ mollie.payment.applicationFee = 0
  /\ step.outcome = "synced"
  /\ \E r \in fees : fees = {r} /\ r.value = ESTIMATE_FIXED * UnitsPerCent
  /\ result.synced_payments = 1 /\ result.failed_payments = 0

\* C27: _make_request started with retry 0 ends after the first attempt and
\* at most MAX_RETRIES retries, whatever the answers; 429 and other HTTP
\* errors draw on the same counter; retry number k is preceded by a sleep of
\* BACKOFF_FACTOR^k seconds, so n attempts have slept 1 + 2 + .. = 2^(n-1) - 1
\* seconds; a last attempt that is not answered with a body is reported as a
\* failure and not retried.
C27_BoundedBackoff ==
  (gw.rq.done /\ gw.rq.retry = 0)
  => LET n == gw.rq.attempts IN
     /\ n \in 1..(MAX_RETRIES + 1)
     /\ \A i \in 1..(n - 1) : gw.rq.responses[i] \notin {"ok", "404", "neterr"}
     /\ gw.rq.slept = BACKOFF_FACTOR ^ (n - 1) - 1
     /\ n = MAX_RETRIES + 1 => gw.rq.slept = 1 + 2 + 4
     /\ gw.rq.ok <=> gw.rq.responses[n] = "ok"

\* Two answers 429 and two answers 500: four attempts, 1 + 2 + 4 seconds
\* slept, a failure reported.
C27_Witness ==
  /\ gw.rq.done /\ gw.rq.retry = 0
  /\ gw.rq.responses = Answers("429", "500", 2)
  /\ gw.rq.attempts = MAX_RETRIES + 1 /\ gw.rq.slept = 7 /\ ~gw.rq.ok

\* C28: a get_transaction_details call that misses the cache and gets the
\* transaction from the processor leaves the cache row of the transaction
\* holding the returned result, modified now; a call that returns nothing
\* leaves no row.
C28_CacheWrittenOnFetch ==
  [][ (GwCall /\ gw'.out.http >= 1)
      => /\ gw'.out.kind = "data"
            => /\ gw'.row.present
               /\ gw'.row.modified = gw.t
               /\ gw'.row.amount_fee = gw'.out.data.amount_fee
               /\ gw'.row.amount_gross = gw'.out.data.amount_gross
               /\ gw'.row.status = gw'.out.data.status
         /\ gw'.out.kind = "none" => ~gw'.row.present ]_vars

\* C30: calculate_exact_fee uses the rate of the label the fee region maps
\* to when the table holds that label; when the region is unknown to the
\* mapping or its label is absent from the table, it uses the generic card
\* label if the table holds it, else the first category of the table without
\* the adjustment marker.
C30_CategoryMappingOrder ==
  calc.phase = "exact"
  => LET rates == calc.rates
         mapped == FeeRegionMapping(calc.payment_data.feeRegion)
         plain == { i \in 1..Len(rates) : ~HasRoundingMarker(rates[i].description) }
         uses(description) == ~calc.exact.none /\ calc.exact.rate = description
     IN  IF mapped # "" /\ mapped \in RateKeys(rates)
         THEN uses(mapped)
         ELSE IF CARTE_BANCAIRE \in RateKeys(rates)
         THEN uses(CARTE_BANCAIRE)
         ELSE plain # {}
              => uses(rates[CHOOSE i \in plain : \A j \in plain : i <= j].description)

\* C22: once a SettlementRateCache row exists for the settlement, no step
\* changes or deletes it, and a lookup of the settlement's rates returns the
\* row's rates without a settlement request, whatever the row's age and
\* whatever Mollie would answer now.
C22_RateTableImmutable ==
  [][ rate_cache.row.present
      => /\ rate_cache'.row = rate_cache.row
         /\ (rate_cache'.out # rate_cache.out
             /\ (rate_cache'.out.kind = "rates"
                 \/ (rate_cache'.out.settled /\ rate_cache'.out.access_token # "none")))
            => /\ ~rate_cache'.out.none
               /\ rate_cache'.out.rates = rate_cache.row.rates_data
               /\ rate_cache'.out.http = 0 ]_vars

\* A row fetched two hours ago was returned without a request although
\* Mollie now answers with other data.
C22_Witness ==
  /\ rate_cache.out.kind = "rates" /\ rate_cache.out.http = 0
  /\ rate_cache.row.present
  /\ rate_cache.t - rate_cache.row.fetched_at >= 2
  /\ rate_cache.api.rates # rate_cache.row.rates_data
  /\ rate_cache.out.rates = rate_cache.row.rates_data

\* C29: _calculate_fees returns an estimate only without access token or
\* when the rate lookup yields nothing (the settlement's table for a settled
\* payment, last_known_settlement_rates for an unsettled one); whenever the
\* lookup yields a non-empty table the fee is computed from that table.
C29_EstimateOnlyWithoutRates ==
  rate_cache.out.kind = "fees"
  => LET out == rate_cache.out IN
     /\ out.fees.source = "estimated"
        => out.access_token = "none" \/ out.none \/ out.rates = << >>
     /\ (out.access_token # "none" /\ out.rates # << >>)
        => /\ out.fees.source = "exact"
           /\ out.rates = (IF out.settled THEN rate_cache.row.rates_data
                           ELSE rate_cache.last_known)

\* C26: no payment of a batch is fetched from Mollie by a client holding an
\* access token that is past its expiry or within BUFFER_MINUTES of it: the
\* token the service took over as valid is still valid when the iteration
\* of the payment runs.
C26_TokenFreshPerPayment ==
  [][ (/\ Iteration /\ step'.http >= 1
       /\ service.access_token # "none" /\ service.refreshes = 0)
      => /\ psp_config.mollie_token_expires_at # NoExpiry
         /\ clock < psp_config.mollie_token_expires_at - 5 ]_vars

\* C21: the fee a client returns for a transaction is never negative, and no
\* OrderFee row holds a negative value.
C21_NonNegativeFee ==
  /\ (step.ran /\ step.fetched = "data") => step.fee >= 0
  /\ \A r \in fees : r.value >= 0

\* C24: a callback changes the stored credential or exchanges a code only
\* when its state carries a nonce the session holds, and that nonce is gone
\* from the session afterwards; so a callback without state, with an
\* undecodable state or an unknown nonce changes nothing, and neither does
\* a second callback with a state already used.
C24_StateValidated ==
  [][ (psp_config' # psp_config \/ web'.exchanges # web.exchanges)
      => /\ web'.last.state \in web.session
         /\ web'.last.state \notin web'.session
         /\ web'.exchanges = web.exchanges + 1 ]_vars

\* The state carrying nonce n1 connected the tenant once; it was sent again
\* and refused.
C24_Witness ==
  /\ "n1" \in web.issued /\ "n1" \notin web.session
  /\ web.exchanges = 1
  /\ psp_config.mollie_oauth_connected /\ psp_config.mollie_access_token = "t1"
  /\ web.last = [state |-> "n1", code |-> TRUE, accepted |-> FALSE]

\* C23: two overlapping runs of one tenant that find the stored token inside
\* the buffer make at most one refresh exchange between them, and once both
\* have stored, the stored access token is the one issued last.
C23_OneRefreshPerToken ==
  /\ workers.exchanges <= 1
  /\ (\A w \in Workers : workers.run[w].pc \notin {"new", "exchange", "store"})
     => (workers.exchanges > 0 => psp_config.mollie_access_token = workers.issued)

\* C25: whatever the interleaving of two runs that include the same payment,
\* at most one OrderFee row exists for the payment's order and type.
C25_NoDuplicateFeeRecord ==
  Cardinality(RowsFor(fees, "p1")) <= 1

\* C31: when the fee region of a payment is missing or unknown to the lookup
\* table, calculate_exact_fee returns "no applicable fee" (None) and never a
\* fee computed from a fallback category.
C31_NoGuessedCategory ==
  (calc.phase = "exact" /\ FeeRegionMapping(calc.payment_data.feeRegion) = "")
  => calc.exact.none

\* A step in which the settlement's rates are looked up: a call of
\* get_settlement_rates, or of _calculate_fees for a settled payment with an
\* access token.
SettlementLookup ==
  /\ rate_cache'.out # rate_cache.out
  /\ \/ rate_cache'.out.kind = "rates"
     \/ rate_cache'.out.settled /\ rate_cache'.out.access_token # "none"

\* C32: a lookup that misses the cache makes one settlement request; when
\* the request fails or the settlement parses to no category, the lookup
\* returns None, creates no SettlementRateCache row and leaves
\* last_known_settlement_rates as it was, so that the next lookup misses and
\* requests again.
C32_EmptyTableNotCached ==
  [][ (SettlementLookup /\ ~rate_cache.row.present)
      => /\ rate_cache'.out.http = 1
         /\ (rate_cache.api.status # "ok" \/ rate_cache.api.rates = << >>)
            => /\ rate_cache'.out.none
               /\ rate_cache'.row = rate_cache.row
               /\ rate_cache'.last_known = rate_cache.last_known ]_vars

\* An empty settlement was looked up while older last known rates existed:
\* None came back after one request, no row exists, the last known rates
\* are still there.
C32_Witness ==
  /\ rate_cache.out.kind = "rates" /\ rate_cache.out.none
  /\ rate_cache.out.http = 1
  /\ rate_cache.api = [status |-> "ok", rates |-> << >>]
  /\ ~rate_cache.row.present
  /\ rate_cache.last_known # << >>

\* C33: when two get_settlement_rates calls for one uncached settlement
\* interleave, neither raises, a call that parsed a table returns that
\* table, and a row once written is never replaced: one row exists for the
\* settlement, with the contents of the first writer.
C33_BenignDuplicateFetch ==
  [][ /\ rate_cache.row.present => rate_cache'.row = rate_cache.row
      /\ \A c \in Callers :
           /\ ~rate_cache'.calls[c].raised
           /\ (rate_cache.calls[c].pc = "fetched" /\ rate_cache'.calls[c].pc = "done")
              => /\ ~rate_cache'.calls[c].none
                 /\ rate_cache'.calls[c].rates = rate_cache.calls[c].parsed
                 /\ rate_cache'.row.present
                 /\ ~rate_cache.row.present
                    => rate_cache'.row.rates_data = rate_cache.calls[c].parsed ]_vars

\* Both calls missed and parsed different tables; both returned their own
\* table, the second insert failed and the row holds the other table.
C33_Witness ==
  /\ \A c \in Callers : rate_cache.calls[c].pc = "done" /\ ~rate_cache.calls[c].none
  /\ rate_cache.calls["a"].parsed # << >> /\ rate_cache.calls["b"].parsed # << >>
  /\ rate_cache.calls["a"].parsed # rate_cache.calls["b"].parsed
  /\ rate_cache.calls["b"].warned
  /\ rate_cache.row.rates_data = rate_cache.calls["a"].parsed

\* C34: the counters of a PSPSyncResult account for the payments of the call:
\* total_payments is the number of payments processed plus those still to
\* come, so that at the return total = synced + skipped + failed; every
\* processed payment is counted in exactly one counter, once; errors holds
\* one entry per failed payment, with its id; and total_fees grows by the
\* fee of a payment exactly when that payment is counted as synced.
C34_ResultAccounting ==
  [][ /\ result'.total_payments
           = result'.synced_payments + result'.skipped_payments
             + result'.failed_payments + Len(queue')
      /\ result'.synced_payments
           = Cardinality({ p \in Payments : outcome'[p] = "synced" })
      /\ result'.skipped_payments
           = Cardinality({ p \in Payments : outcome'[p] = "skipped" })
      /\ result'.failed_payments
           = Cardinality({ p \in Payments : outcome'[p] = "failed" })
      /\ Len(result'.errors) = result'.failed_payments
      /\ { result'.errors[i].payment_id : i \in 1..Len(result'.errors) }
           = { p \in Payments : outcome'[p] = "failed" }
      /\ Iteration
         => /\ result'.total_fees
                 = result.total_fees
                   + (IF step'.outcome = "synced" THEN step'.fee ELSE 0)
            /\ result'.synced_payments + result'.skipped_payments
               + result'.failed_payments
                 = result.synced_payments + result.skipped_payments
                   + result.failed_payments + 1 ]_vars

\* A call over two payments is about to return: one payment synced, with its
\* fee in total_fees, the other skipped, no error entry.
C34_Witness ==
  /\ CallFinished /\ Len(batch) = 2
  /\ result.total_payments = 2
  /\ result.synced_payments = 1 /\ result.skipped_payments = 1
  /\ result.failed_payments = 0 /\ result.errors = << >>
  /\ result.total_fees = 29

\* C35: in a call with force=False and dry_run=False the pre-filter of
\* skip_already_synced=True excludes exactly the payments that the check of
\* _sync_single_payment would skip as already synced (psp_fees.synced_at
\* present), so that the rows and annotations after the call do not depend
\* on skip_already_synced.
C35_PrefilterMatchesCheck ==
  [][ (pc = "idle" /\ pc' = "running" /\ opts'.skip_already_synced
       /\ ~opts'.force /\ ~opts'.dry_run)
      => \A i \in 1..Len(batch') :
           (outcome'[batch'[i]] = "excluded") <=> info[batch'[i]].present ]_vars

\* C36: a tick syncs the organizer only with auto_sync_enabled, an enabled
\* PSP and last_auto_sync unset or at least the interval old (hourly 1 h,
\* 6hours 6 h, daily 24 h, any other value 6 h); last_auto_sync becomes the
\* time at which the sync ended, so a completed sync begins at least one
\* interval after the previous one ended; a tick that raises or passes the
\* organizer over leaves last_auto_sync unchanged, and after a raise the
\* organizer is still due.
C36_AutoSyncGating ==
  [][ LET hours == IF auto.auto_sync_interval = "hourly" THEN 1
                   ELSE IF auto.auto_sync_interval = "daily" THEN 24 ELSE 6
          due(A) == /\ A.auto_sync_enabled
                    /\ A.mollie_enabled \/ A.sumup_enabled
                    /\ A.last_auto_sync = NoStamp \/ A.t - A.last_auto_sync >= hours
      IN  auto'.tick # auto.tick
          => /\ auto'.tick.outcome \in {"synced", "raised"} <=> due(auto)
             /\ auto'.tick.outcome = "synced"
                => /\ auto'.last_auto_sync = auto'.tick.ended
                   /\ auto'.tick.ended = auto'.t
                   /\ auto.last_auto_sync # NoStamp
                      => auto'.tick.began - auto.last_auto_sync >= hours
             /\ auto'.tick.outcome # "synced"
                => auto'.last_auto_sync = auto.last_auto_sync
             /\ auto'.tick.outcome = "raised" => due(auto') ]_vars

\* A daily organizer was synced a second time, 24 hours after the first
\* sync ended.
C36_Witness ==
  /\ auto.auto_sync_interval = "daily"
  /\ auto.tick.outcome = "synced"
  /\ auto.tick.prior # NoStamp
  /\ auto.tick.began - auto.tick.prior = 24
  /\ auto.last_auto_sync = auto.tick.ended

\* C37: a call of sync_organizer_payments with a cap never hands
\* sync_payments only payments that are already synced while another
\* confirmed payment of a configured processor, with a non-zero fee
\* upstream, is still unsynced; so repeated capped calls reach every such
\* payment.
C37_BatchCapProgress ==
  [][ (pc = "idle" /\ pc' = "running")
      => ~ /\ \A i \in 1..Len(batch') : info[batch'[i]].present
           /\ \E p \in Payments \ Range(batch') :
                /\ pstate[p] = PAYMENT_STATE_CONFIRMED
                /\ provider[p] \in MollieProviders \cup {"sumup"}
                /\ hasTxId[p]
                /\ config[IF provider[p] = "sumup" THEN "sumup" ELSE "mollie"]
                /\ upstream[p].status = "ok" /\ upstream[p].fee # 0
                /\ ~info[p].present ]_vars

\* C38: the freshness window of the clients' cache reads is the organizer's
\* PSPConfig.cache_duration: a row younger than cache_duration is returned
\* without any HTTP attempt and left as it is; a row older than
\* cache_duration is not returned, the processor is asked and the row is
\* deleted or rewritten.
C38_ConfiguredCacheDuration ==
  [][ (GwCall /\ gw.row.present)
      => /\ gw.t - gw.row.modified < gw.cache_duration
            => /\ gw'.out.http = 0
               /\ gw'.out.kind = "data"
               /\ gw'.row = gw.row
         /\ gw.t - gw.row.modified > gw.cache_duration
            => /\ gw'.out.http >= 1
               /\ ~gw'.row.present \/ gw'.row.modified = gw.t ]_vars

\* C39: after any sequence of cache writes and evictions of the clients of
\* all organizers, PSPTransactionCache holds at most one row per
\* (psp_provider, transaction_id); a write that would insert a second row
\* for a pair held by another organizer fails, is not raised to the caller
\* and leaves the table as it was.
C39_UniqueCacheKey ==
  [][ /\ \A r1, r2 \in txcache'.rows :
           (r1.psp_provider = r2.psp_provider
            /\ r1.transaction_id = r2.transaction_id) => r1 = r2
      /\ (txcache'.last # txcache.last
          /\ \E r \in txcache.rows :
               /\ r.psp_provider = txcache'.last.psp_provider
               /\ r.transaction_id = txcache'.last.transaction_id
               /\ r.organizer # txcache'.last.organizer)
         => /\ txcache'.rows = txcache.rows
            /\ txcache'.last.error
            /\ ~txcache'.last.raised ]_vars

\* The second organizer's write of a transaction id that the first one has
\* cached failed; the first organizer's row is there with its own fee.
C39_Witness ==
  /\ txcache.last.error
  /\ txcache.last.organizer = "org2" /\ txcache.last.amount_fee = 49
  /\ \E r \in txcache.rows :
       /\ r.organizer = "org1" /\ r.amount_fee = 29
       /\ r.psp_provider = txcache.last.psp_provider
       /\ r.transaction_id = txcache.last.transaction_id

\* C40: the callback stores tokens only into the PSPConfig of the organizer
\* for which the connect view issued the nonce that the state carries; a
\* callback whose state carries a nonce of the session but names another
\* organizer changes no organizer's OAuth fields.
C40_CallbackBoundToOrganizer ==
  [][ \A o \in Organizers :
        tenants'.cfg[o] # tenants.cfg[o]
        => /\ tenants'.last.csrf \in tenants.session
           /\ tenants.issued_for[tenants'.last.csrf] = o ]_vars

====
